---- MODULE Spec2Model ----
(***************************************************************************)
(* Model of the SqliteFS FUSE driver of joplin_sqlite_fuse (src/main.rs).  *)
(*                                                                         *)
(* Strings are sequences of one-character strings, so that the suffix,     *)
(* prefix and split operations of the code are computed as the code        *)
(* computes them.  Note bodies are sequences of byte values.  Store ids    *)
(* are naturals; 0 stands for the empty string, the parent id of the root. *)
(* The SQL store is taken to answer every statement (no I/O failure); the  *)
(* only query error is "no rows".                                          *)
(***************************************************************************)
EXTENDS Integers, Sequences, FiniteSets, TLC

VARIABLES
    folders,            \* rows of table folders
    notes,              \* rows of table notes
    inode_map,          \* SqliteFS.inode_map: path -> inode
    reverse_inode_map,  \* SqliteFS.reverse_inode_map: inode -> path
    next_inode,         \* SqliteFS.next_inode
    now,                \* the system clock, whole seconds
    next_uuid,          \* the next identifier Uuid::new_v4 hands out
    tie,                \* how the store orders rows of equal user_updated_time
    steps,              \* number of upcalls dispatched so far
    last,               \* the last upcall: its name, arguments and reply
    pre,                \* store and registry as they were before the last upcall
    prev_create,        \* the successful create dispatched just before the last upcall
    issued              \* the (inode, kind) pairs lookup, create and mkdir have replied

vars == <<folders, notes, inode_map, reverse_inode_map, next_inode, now,
          next_uuid, tie, steps, last, pre, prev_create, issued>>

----------------------------------------------------------------------------
(* Bounds of the model *)

\* upcalls dispatched in one behaviour
MaxOps == 2
\* last value of the clock
MaxTime == 3
\* largest offset passed to read, write and readdir
MaxOffset == 2
\* the large size passed to read
MaxSize == 8
\* longest name given to the name codec
MaxNameLen == 6
\* applications of the name codec in one behaviour
MaxCodecOps == 2

----------------------------------------------------------------------------
(* Strings *)

Min(a, b) == IF a < b THEN a ELSE b

Max(a, b) == IF a < b THEN b ELSE a

Range(s) == {s[i] : i \in 1..Len(s)}

StartsWith(s, p) == Len(p) <= Len(s) /\ SubSeq(s, 1, Len(p)) = p

EndsWith(s, p) == Len(p) <= Len(s) /\ SubSeq(s, Len(s) - Len(p) + 1, Len(s)) = p

\* s[from..] of the code, with from a 0-based index
DropFirst(s, n) == SubSeq(s, n + 1, Len(s))

MdSuffix == <<".", "m", "d">>

Slash == <<"/">>

RootPath == <<"/">>

\* the character that stands for a byte sequence that is not UTF-8 in a name
BadChar == "#"

\* OsStr::to_str
to_str_ok(name) == BadChar \notin Range(name)

\* filename.strip_suffix(".md").unwrap_or(filename)
strip_md_suffix(filename) ==
    IF EndsWith(filename, MdSuffix)
    THEN SubSeq(filename, 1, Len(filename) - Len(MdSuffix))
    ELSE filename

\* title unchanged when it ends with ".md", else title + ".md"
add_md_suffix(title) ==
    IF EndsWith(title, MdSuffix) THEN title ELSE title \o MdSuffix

\* format!("/{}", name) at the root, format!("{}/{}", parent_path, name) below it
JoinPath(parent_path, name) ==
    IF parent_path = RootPath THEN Slash \o name ELSE parent_path \o Slash \o name

\* path.rfind('/'): the 1-based index of the last slash, 0 when there is none
RFindSlash(path) ==
    LET idx == {i \in 1..Len(path) : path[i] = "/"}
    IN IF idx = {} THEN 0 ELSE CHOOSE i \in idx : \A j \in idx : j <= i

\* (parent_path, filename) as getattr, read, write, open and setattr derive them
SplitPath(path) ==
    LET pos == RFindSlash(path)
    IN IF pos = 0
       THEN [parent |-> RootPath, name |-> path]
       ELSE LET parent == SubSeq(path, 1, pos - 1)
            IN [parent |-> IF parent = <<>> THEN RootPath ELSE parent,
                name |-> SubSeq(path, pos + 1, Len(path))]

RECURSIVE SplitOnSlash(_)
\* s.split('/'): the pieces between slashes, empty pieces included
SplitOnSlash(s) ==
    LET idx == {i \in 1..Len(s) : s[i] = "/"}
    IN IF idx = {}
       THEN <<s>>
       ELSE LET i == CHOOSE k \in idx : \A j \in idx : k <= j
            IN <<SubSeq(s, 1, i - 1)>> \o SplitOnSlash(DropFirst(s, i))

RECURSIVE TrimStartSlashes(_)
\* s.trim_start_matches('/')
TrimStartSlashes(s) ==
    IF s # <<>> /\ Head(s) = "/" THEN TrimStartSlashes(Tail(s)) ELSE s

----------------------------------------------------------------------------
(* Bytes and bodies *)

\* the bytes of U+FFFD, the replacement character
Replacement == <<239, 191, 189>>

IsAscii(b) == b < 128

IsContinuation(b) == b >= 128 /\ b <= 191

RECURSIVE from_utf8_lossy(_)
\* String::from_utf8_lossy over the bytes the model uses: ASCII bytes and the
\* well-formed three-byte sequence EF xx xx are kept, every maximal ill-formed
\* piece becomes U+FFFD
from_utf8_lossy(bytes) ==
    IF bytes = <<>> THEN <<>>
    ELSE LET b == Head(bytes)
         IN IF IsAscii(b) THEN <<b>> \o from_utf8_lossy(Tail(bytes))
            ELSE IF b = 239 /\ Len(bytes) >= 2 /\ IsContinuation(bytes[2])
            THEN IF Len(bytes) >= 3 /\ IsContinuation(bytes[3])
                 THEN SubSeq(bytes, 1, 3) \o from_utf8_lossy(DropFirst(bytes, 3))
                 ELSE Replacement \o from_utf8_lossy(DropFirst(bytes, 2))
            ELSE Replacement \o from_utf8_lossy(Tail(bytes))

IsUtf8(bytes) == from_utf8_lossy(bytes) = bytes

\* content_bytes.resize(n, 0) when n exceeds the length
ZeroPad(bytes, n) ==
    bytes \o [i \in 1..(n - Len(bytes)) |-> 0]

----------------------------------------------------------------------------
(* The store: tables folders and notes.  A state s of the file system is a  *)
(* record of both tables and the registry: [folders, notes, reg].           *)

\* the parent_id of rows directly under the root (the empty string)
RootId == 0

NoRow == [id |-> -1]

FolderRow(id, title, parent_id, created, updated, deleted) ==
    [id |-> id, title |-> title, parent_id |-> parent_id,
     created_time |-> created, updated_time |-> updated,
     user_created_time |-> created, user_updated_time |-> updated,
     deleted_time |-> deleted]

NoteRow(id, title, parent_id, body, created, updated, deleted) ==
    [id |-> id, title |-> title, parent_id |-> parent_id, body |-> body,
     created_time |-> created, updated_time |-> updated,
     user_created_time |-> created, user_updated_time |-> updated,
     deleted_time |-> deleted]

\* the probe without its deleted_time = 0 condition
Matching_ignores_deleted(table, parent_id, title) ==
    {r \in table : r.parent_id = parent_id /\ r.title = title}

\* WHERE parent_id = ?1 AND title = ?2 AND deleted_time = 0
Matching(table, parent_id, title) ==
    {r \in table : r.parent_id = parent_id /\ r.title = title /\ r.deleted_time = 0}

\* WHERE parent_id = ?1 AND deleted_time = 0
ChildrenOf(table, parent_id) ==
    {r \in table : r.parent_id = parent_id /\ r.deleted_time = 0}

\* r comes before s under ORDER BY user_updated_time DESC; rows of equal time
\* come in rowid order or against it, as the store happens to do (tie)
Before(r, s) ==
    \/ r.user_updated_time > s.user_updated_time
    \/ /\ r.user_updated_time = s.user_updated_time
       /\ IF tie = "rowid_asc" THEN r.id < s.id ELSE r.id > s.id

\* FirstRow under ORDER BY user_updated_time ASC
FirstRow_oldest(rows) ==
    IF rows = {} THEN NoRow
    ELSE CHOOSE r \in rows : \A q \in rows \ {r} : Before(q, r)

\* ORDER BY user_updated_time DESC LIMIT 1 over rows; NoRow when there is none
FirstRow(rows) ==
    IF rows = {} THEN NoRow
    ELSE CHOOSE r \in rows : \A q \in rows \ {r} : Before(r, q)

RECURSIVE OrderedRows(_)
\* ORDER BY user_updated_time DESC over rows, as a sequence
OrderedRows(rows) ==
    IF rows = {} THEN <<>>
    ELSE LET r == FirstRow(rows) IN <<r>> \o OrderedRows(rows \ {r})

\* the latest undeleted folder with (parent_id, title)
find_folder(s, parent_id, title) == FirstRow(Matching(s.folders, parent_id, title))

\* the latest undeleted note with (parent_id, title)
find_note(s, parent_id, title) == FirstRow(Matching(s.notes, parent_id, title))

RECURSIVE WalkFolders_from_root(_, _, _)
\* WalkFolders that looks every component up under the root
WalkFolders_from_root(s, parts, current_parent_id) ==
    IF parts = <<>> THEN current_parent_id
    ELSE IF Head(parts) = <<>>
    THEN WalkFolders_from_root(s, Tail(parts), current_parent_id)
    ELSE LET f == find_folder(s, RootId, Head(parts))
         IN IF f.id = -1 THEN -1 ELSE WalkFolders_from_root(s, Tail(parts), f.id)

RECURSIVE WalkFolders(_, _, _)
\* the loop of get_parent_folder_id: -1 when a component has no folder row
WalkFolders(s, parts, current_parent_id) ==
    IF parts = <<>> THEN current_parent_id
    ELSE IF Head(parts) = <<>> THEN WalkFolders(s, Tail(parts), current_parent_id)
    ELSE LET f == find_folder(s, current_parent_id, Head(parts))
         IN IF f.id = -1 THEN -1 ELSE WalkFolders(s, Tail(parts), f.id)

\* get_parent_folder_id: [ok, id]
get_parent_folder_id(s, parent_path) ==
    IF parent_path = RootPath THEN [ok |-> TRUE, id |-> RootId]
    ELSE LET id == WalkFolders(s, SplitOnSlash(TrimStartSlashes(parent_path)), RootId)
         IN [ok |-> id # -1, id |-> id]

----------------------------------------------------------------------------
(* The inode registry: [inode_map, reverse_inode_map, next_inode] *)

\* HashMap::insert
MapInsert(m, k, v) == [x \in DOMAIN m \cup {k} |-> IF x = k THEN v ELSE m[x]]

\* HashMap::remove
MapRemove(m, k) == [x \in DOMAIN m \ {k} |-> m[x]]

\* get_or_create_inode that hands out the least inode number no path holds
get_or_create_inode_reuses(reg, path) ==
    IF path \in DOMAIN reg.inode_map
    THEN [reg |-> reg, inode |-> reg.inode_map[path]]
    ELSE LET free == CHOOSE n \in 2..reg.next_inode :
                         /\ n \notin DOMAIN reg.reverse_inode_map
                         /\ \A m \in 2..(n - 1) : m \in DOMAIN reg.reverse_inode_map
         IN [reg |-> [inode_map |-> MapInsert(reg.inode_map, path, free),
                      reverse_inode_map |->
                          MapInsert(reg.reverse_inode_map, free, path),
                      next_inode |-> Max(reg.next_inode, free + 1)],
             inode |-> free]

\* get_or_create_inode that allocates a number without looking the path up
get_or_create_inode_always_new(reg, path) ==
    [reg |-> [inode_map |-> MapInsert(reg.inode_map, path, reg.next_inode),
              reverse_inode_map |->
                  MapInsert(reg.reverse_inode_map, reg.next_inode, path),
              next_inode |-> reg.next_inode + 1],
     inode |-> reg.next_inode]

\* get_or_create_inode on registry reg: [reg, inode]
get_or_create_inode(reg, path) ==
    IF path \in DOMAIN reg.inode_map
    THEN [reg |-> reg, inode |-> reg.inode_map[path]]
    ELSE [reg |-> [inode_map |-> MapInsert(reg.inode_map, path, reg.next_inode),
                   reverse_inode_map |->
                       MapInsert(reg.reverse_inode_map, reg.next_inode, path),
                   next_inode |-> reg.next_inode + 1],
          inode |-> reg.next_inode]

\* get_path_from_inode(inode).is_some()
has_path(s, inode) == inode \in DOMAIN s.reg.reverse_inode_map

\* get_path_from_inode(inode), for an inode that has a path
get_path_from_inode(s, inode) == s.reg.reverse_inode_map[inode]

----------------------------------------------------------------------------
(* Replies and the attribute records *)

Error(code) == [code |-> code]

\* the FileAttr of a folder: size 0, perm 0o755, nlink 2
DirAttr(ino, created, updated) ==
    [code |-> "ok", ino |-> ino, kind |-> "Directory", size |-> 0, blocks |-> 0,
     crtime |-> created, mtime |-> updated, perm |-> 493, nlink |-> 2]

\* the FileAttr of a note: size the byte length of the body, perm 0o644, nlink 1
FileAttr(ino, size, created, updated) ==
    [code |-> "ok", ino |-> ino, kind |-> "RegularFile", size |-> size,
     blocks |-> (size + 511) \div 512,
     crtime |-> created, mtime |-> updated, perm |-> 420, nlink |-> 1]

\* what a handler leaves behind: its reply, both tables and the registry
Outcome(reply, fs, ns, reg) ==
    [reply |-> reply, folders |-> fs, notes |-> ns, reg |-> reg]

\* a handler that replies without changing anything
Reply(s, reply) == Outcome(reply, s.folders, s.notes, s.reg)

----------------------------------------------------------------------------
(* The upcalls, each from a state s to what it leaves behind *)

\* lookup that interns the path before it knows that a row exists
lookup_interns_always(s, parent, name) ==
    IF ~to_str_ok(name) THEN Reply(s, Error("ENOENT"))
    ELSE IF ~has_path(s, parent) THEN Reply(s, Error("ENOENT"))
    ELSE
      LET parent_path == get_path_from_inode(s, parent)
          full_path == JoinPath(parent_path, name)
          pid == get_parent_folder_id(s, parent_path)
          folder_row == IF pid.ok THEN find_folder(s, pid.id, name) ELSE NoRow
          note_row == IF pid.ok THEN find_note(s, pid.id, strip_md_suffix(name))
                      ELSE NoRow
          got == get_or_create_inode(s.reg, full_path)
      IN IF folder_row.id # -1
         THEN Outcome(DirAttr(got.inode, folder_row.created_time,
                              folder_row.updated_time),
                      s.folders, s.notes, got.reg)
         ELSE IF note_row.id # -1
         THEN Outcome(FileAttr(got.inode, Len(note_row.body),
                               note_row.created_time, note_row.updated_time),
                      s.folders, s.notes, got.reg)
         ELSE Outcome(Error("ENOENT"), s.folders, s.notes, got.reg)

\* SqliteFS::lookup
lookup(s, parent, name) ==
    IF ~to_str_ok(name) THEN Reply(s, Error("ENOENT"))
    ELSE IF ~has_path(s, parent) THEN Reply(s, Error("ENOENT"))
    ELSE
      LET parent_path == get_path_from_inode(s, parent)
          full_path == JoinPath(parent_path, name)
          pid == get_parent_folder_id(s, parent_path)
          folder_row == IF pid.ok THEN find_folder(s, pid.id, name) ELSE NoRow
          note_row == IF pid.ok THEN find_note(s, pid.id, strip_md_suffix(name))
                      ELSE NoRow
          got == get_or_create_inode(s.reg, full_path)
      IN IF folder_row.id # -1
         THEN Outcome(DirAttr(got.inode, folder_row.created_time,
                              folder_row.updated_time),
                      s.folders, s.notes, got.reg)
         ELSE IF note_row.id # -1
         THEN Outcome(FileAttr(got.inode, Len(note_row.body),
                               note_row.created_time, note_row.updated_time),
                      s.folders, s.notes, got.reg)
         ELSE Reply(s, Error("ENOENT"))

\* getattr that probes the notes table before the folders table
getattr_note_first(s, ino) ==
    IF ino = 1 THEN Reply(s, DirAttr(1, 0, 0))
    ELSE IF ~has_path(s, ino) THEN Reply(s, Error("ENOENT"))
    ELSE
      LET sp == SplitPath(get_path_from_inode(s, ino))
          pid == get_parent_folder_id(s, sp.parent)
          folder_row == IF pid.ok THEN find_folder(s, pid.id, sp.name) ELSE NoRow
          note_row == IF pid.ok THEN find_note(s, pid.id, strip_md_suffix(sp.name))
                      ELSE NoRow
      IN IF note_row.id # -1
         THEN Reply(s, FileAttr(ino, Len(note_row.body), note_row.created_time,
                                note_row.updated_time))
         ELSE IF folder_row.id # -1
         THEN Reply(s, DirAttr(ino, folder_row.created_time, folder_row.updated_time))
         ELSE Reply(s, Error("ENOENT"))

\* SqliteFS::getattr
getattr(s, ino) ==
    IF ino = 1 THEN Reply(s, DirAttr(1, 0, 0))
    ELSE IF ~has_path(s, ino) THEN Reply(s, Error("ENOENT"))
    ELSE
      LET sp == SplitPath(get_path_from_inode(s, ino))
          pid == get_parent_folder_id(s, sp.parent)
          folder_row == IF pid.ok THEN find_folder(s, pid.id, sp.name) ELSE NoRow
          note_row == IF pid.ok THEN find_note(s, pid.id, strip_md_suffix(sp.name))
                      ELSE NoRow
      IN IF folder_row.id # -1
         THEN Reply(s, DirAttr(ino, folder_row.created_time, folder_row.updated_time))
         ELSE IF note_row.id # -1
         THEN Reply(s, FileAttr(ino, Len(note_row.body), note_row.created_time,
                                note_row.updated_time))
         ELSE Reply(s, Error("ENOENT"))

\* the bytes read replies with: content[start..], or nothing from the end on
ReadSlice(content, offset, size) ==
    IF offset < Len(content) THEN DropFirst(content, offset) ELSE <<>>

\* read that refuses an offset at or past the end of the body
read_rejects_past_end(s, ino, offset, size) ==
    IF ~has_path(s, ino) THEN Reply(s, Error("ENOENT"))
    ELSE
      LET sp == SplitPath(get_path_from_inode(s, ino))
          pid == get_parent_folder_id(s, sp.parent)
          note_row == IF pid.ok THEN find_note(s, pid.id, strip_md_suffix(sp.name))
                      ELSE NoRow
      IN IF note_row.id # -1 /\ offset < Len(note_row.body)
         THEN Reply(s, [code |-> "ok",
                        data |-> ReadSlice(note_row.body, offset, size)])
         ELSE IF note_row.id # -1 THEN Reply(s, Error("EINVAL"))
         ELSE Reply(s, Error("ENOENT"))

\* SqliteFS::read
read(s, ino, offset, size) ==
    IF ~has_path(s, ino) THEN Reply(s, Error("ENOENT"))
    ELSE
      LET sp == SplitPath(get_path_from_inode(s, ino))
          pid == get_parent_folder_id(s, sp.parent)
          note_row == IF pid.ok THEN find_note(s, pid.id, strip_md_suffix(sp.name))
                      ELSE NoRow
      IN IF note_row.id # -1
         THEN Reply(s, [code |-> "ok",
                        data |-> ReadSlice(note_row.body, offset, size)])
         ELSE Reply(s, Error("ENOENT"))

\* SqliteFS::open
open(s, ino) ==
    IF ~has_path(s, ino) THEN Reply(s, Error("ENOENT"))
    ELSE
      LET sp == SplitPath(get_path_from_inode(s, ino))
          pid == get_parent_folder_id(s, sp.parent)
      IN IF ~pid.ok THEN Reply(s, Error("ENOENT"))
         ELSE IF find_note(s, pid.id, strip_md_suffix(sp.name)).id # -1
         THEN Reply(s, [code |-> "ok", fh |-> ino])
         ELSE Reply(s, Error("ENOENT"))

\* flush that replies success without consulting the registry
flush_always_ok(s, ino) == Reply(s, [code |-> "ok"])

\* SqliteFS::flush
flush(s, ino) ==
    IF has_path(s, ino) THEN Reply(s, [code |-> "ok"]) ELSE Reply(s, Error("ENOENT"))

\* release that drops the registry entry of the inode it closes
release_forgets(s, ino) ==
    IF has_path(s, ino)
    THEN Outcome([code |-> "ok"], s.folders, s.notes,
                 IF ino = 1 THEN s.reg
                 ELSE [s.reg EXCEPT
                         !.inode_map = MapRemove(s.reg.inode_map,
                                                 get_path_from_inode(s, ino)),
                         !.reverse_inode_map =
                             MapRemove(s.reg.reverse_inode_map, ino)])
    ELSE Reply(s, Error("ENOENT"))

\* release that replies success for every inode
release_always_ok(s, ino) == Reply(s, [code |-> "ok"])

\* SqliteFS::release
release(s, ino) ==
    IF has_path(s, ino) THEN Reply(s, [code |-> "ok"]) ELSE Reply(s, Error("ENOENT"))

RECURSIVE InternEntries(_, _, _, _)
\* the two loops of readdir that intern each child path and push its entry:
\* [reg, entries]
InternEntries(reg, path, kind, names) ==
    IF names = <<>> THEN [reg |-> reg, entries |-> <<>>]
    ELSE LET got == get_or_create_inode(reg, JoinPath(path, Head(names)))
             rest == InternEntries(got.reg, path, kind, Tail(names))
         IN [reg |-> rest.reg,
             entries |-> <<[ino |-> got.inode, kind |-> kind, name |-> Head(names)]>>
                         \o rest.entries]

\* the seen_titles loop of readdir that keeps every entry
UniqueEntries_keeps_all(entries, seen_titles) == entries

RECURSIVE UniqueEntries(_, _)
\* the seen_titles loop of readdir: the first entry of each name is kept
UniqueEntries(entries, seen_titles) ==
    IF entries = <<>> THEN <<>>
    ELSE LET e == Head(entries)
         IN IF e.name = <<".">> \/ e.name = <<".", ".">>
            THEN <<e>> \o UniqueEntries(Tail(entries), seen_titles)
            ELSE IF e.name \notin seen_titles
            THEN <<e>> \o UniqueEntries(Tail(entries), seen_titles \cup {e.name})
            ELSE UniqueEntries(Tail(entries), seen_titles)

\* EmitEntries that tags each entry with its own position, not the next one
EmitEntries_tags_own_position(unique_entries, offset) ==
    [k \in 1..Max(0, Len(unique_entries) - offset) |->
        [ino |-> unique_entries[k + offset].ino, offset |-> k + offset - 1,
         kind |-> unique_entries[k + offset].kind,
         name |-> unique_entries[k + offset].name]]

\* the entries reply.add receives: those after the first offset ones, each with
\* its position as the offset to resume from (the reply buffer never fills)
EmitEntries(unique_entries, offset) ==
    [k \in 1..Max(0, Len(unique_entries) - offset) |->
        [ino |-> unique_entries[k + offset].ino, offset |-> k + offset,
         kind |-> unique_entries[k + offset].kind,
         name |-> unique_entries[k + offset].name]]

\* SqliteFS::readdir
readdir(s, ino, offset) ==
    IF ~has_path(s, ino) THEN Reply(s, Error("ENOENT"))
    ELSE
      LET path == get_path_from_inode(s, ino)
          pid == get_parent_folder_id(s, path)
          folder_rows == OrderedRows(ChildrenOf(s.folders, pid.id))
          folder_titles == [i \in 1..Len(folder_rows) |-> folder_rows[i].title]
          note_rows == OrderedRows(ChildrenOf(s.notes, pid.id))
          note_titles == [i \in 1..Len(note_rows) |-> add_md_suffix(note_rows[i].title)]
          fs == InternEntries(s.reg, path, "Directory", folder_titles)
          ns == InternEntries(fs.reg, path, "RegularFile", note_titles)
          entries == <<[ino |-> ino, kind |-> "Directory", name |-> <<".">>],
                       [ino |-> 1, kind |-> "Directory", name |-> <<".", ".">>]>>
                     \o fs.entries \o ns.entries
      IN IF ~pid.ok THEN Reply(s, Error("ENOENT"))
         ELSE Outcome([code |-> "ok",
                       entries |-> EmitEntries(UniqueEntries(entries, {}), offset)],
                      s.folders, s.notes, ns.reg)

\* create_folder that files the new row under the root whatever the parent is
create_folder_at_root(s, parent_path, folder_name, uuid, t) ==
    LET pid == get_parent_folder_id(s, parent_path)
    IN IF ~pid.ok THEN [ok |-> FALSE, folders |-> s.folders]
       ELSE [ok |-> TRUE,
             folders |-> s.folders
                         \cup {FolderRow(uuid, folder_name, RootId, t, t, 0)}]

\* create_folder that also stamps the parent folder row with the clock
create_folder_touches_parent(s, parent_path, folder_name, uuid, t) ==
    LET pid == get_parent_folder_id(s, parent_path)
    IN IF ~pid.ok THEN [ok |-> FALSE, folders |-> s.folders]
       ELSE [ok |-> TRUE,
             folders |-> {IF r.id = pid.id
                          THEN [r EXCEPT !.updated_time = t, !.user_updated_time = t]
                          ELSE r : r \in s.folders}
                         \cup {FolderRow(uuid, folder_name, pid.id, t, t, 0)}]

\* create_folder: the INSERT INTO folders, with uuid the fresh id and t the clock
create_folder(s, parent_path, folder_name, uuid, t) ==
    LET pid == get_parent_folder_id(s, parent_path)
    IN IF ~pid.ok THEN [ok |-> FALSE, folders |-> s.folders]
       ELSE [ok |-> TRUE,
             folders |-> s.folders
                         \cup {FolderRow(uuid, folder_name, pid.id, t, t, 0)}]

\* create_note: the INSERT INTO notes
create_note(s, parent_path, file_name, content, uuid, t) ==
    LET pid == get_parent_folder_id(s, parent_path)
    IN IF ~pid.ok THEN [ok |-> FALSE, notes |-> s.notes]
       ELSE [ok |-> TRUE,
             notes |-> s.notes
                       \cup {NoteRow(uuid, strip_md_suffix(file_name), pid.id,
                                     content, t, t, 0)}]

\* SqliteFS::mkdir
mkdir(s, parent, name, uuid, t) ==
    IF ~to_str_ok(name) THEN Reply(s, Error("EINVAL"))
    ELSE IF ~has_path(s, parent) THEN Reply(s, Error("ENOENT"))
    ELSE
      LET parent_path == get_path_from_inode(s, parent)
          made == create_folder(s, parent_path, name, uuid, t)
          got == get_or_create_inode(s.reg, JoinPath(parent_path, name))
      IN IF made.ok
         THEN Outcome(DirAttr(got.inode, t, t), made.folders, s.notes, got.reg)
         ELSE Reply(s, Error("EIO"))

\* SqliteFS::create
create(s, parent, name, uuid, t) ==
    IF ~to_str_ok(name) THEN Reply(s, Error("EINVAL"))
    ELSE IF ~has_path(s, parent) THEN Reply(s, Error("ENOENT"))
    ELSE
      LET parent_path == get_path_from_inode(s, parent)
          made == create_note(s, parent_path, name, <<>>, uuid, t)
          got == get_or_create_inode(s.reg, JoinPath(parent_path, name))
      IN IF made.ok
         THEN Outcome(FileAttr(got.inode, 0, t, t) @@ [fh |-> got.inode],
                      s.folders, made.notes, got.reg)
         ELSE Reply(s, Error("EIO"))

\* WriteContent whose offset-0 branch overlays the data on the current body
WriteContent_keeps_tail(current_content, offset, data) ==
    IF offset + Len(data) <= Len(current_content)
    THEN from_utf8_lossy(
             [i \in 1..Len(current_content) |->
                 IF i > offset /\ i <= offset + Len(data)
                 THEN data[i - offset] ELSE current_content[i]])
    ELSE from_utf8_lossy(ZeroPad(SubSeq(current_content, 1,
                                        Min(offset, Len(current_content))),
                                 offset) \o data)

\* WriteContent that always cuts the body after the written range
WriteContent_drops_tail(current_content, offset, data) ==
    IF offset = 0 THEN from_utf8_lossy(data)
    ELSE from_utf8_lossy(SubSeq(ZeroPad(current_content, offset), 1, offset)
                         \o data)

\* the new body write computes from the current one
WriteContent(current_content, offset, data) ==
    IF offset = 0 THEN from_utf8_lossy(data)
    ELSE LET content_bytes == IF offset > Len(current_content)
                              THEN ZeroPad(current_content, offset)
                              ELSE current_content
         IN IF offset + Len(data) <= Len(content_bytes)
            THEN from_utf8_lossy(
                     [i \in 1..Len(content_bytes) |->
                         IF i > offset /\ i <= offset + Len(data)
                         THEN data[i - offset] ELSE content_bytes[i]])
            ELSE from_utf8_lossy(SubSeq(content_bytes, 1, offset) \o data)

\* update_note_body with the body column left out of the SET list
update_note_body_keep_body(table, parent_id, title, new_content, t) ==
    {IF r \in Matching(table, parent_id, title)
     THEN [r EXCEPT !.updated_time = t, !.user_updated_time = t]
     ELSE r : r \in table}

\* UPDATE notes SET body, updated_time, user_updated_time
\*   WHERE parent_id = ?4 AND title = ?5 AND deleted_time = 0
update_note_body(table, parent_id, title, new_content, t) ==
    {IF r \in Matching(table, parent_id, title)
     THEN [r EXCEPT !.body = new_content, !.updated_time = t,
                    !.user_updated_time = t]
     ELSE r : r \in table}

\* SqliteFS::write
write(s, ino, offset, data, t) ==
    IF ~has_path(s, ino) THEN Reply(s, Error("ENOENT"))
    ELSE
      LET sp == SplitPath(get_path_from_inode(s, ino))
          pid == get_parent_folder_id(s, sp.parent)
          db_title == strip_md_suffix(sp.name)
          note_row == find_note(s, pid.id, db_title)
      IN IF ~pid.ok THEN Reply(s, Error("ENOENT"))
         ELSE IF note_row.id = -1 THEN Reply(s, Error("ENOENT"))
         ELSE Outcome([code |-> "ok", written |-> Len(data)],
                      s.folders,
                      update_note_body(s.notes, pid.id, db_title,
                                       WriteContent(note_row.body, offset, data), t),
                      s.reg)

\* ResizeContent that never extends the body
ResizeContent_no_pad(current_content, new_size) ==
    IF new_size < Len(current_content)
    THEN from_utf8_lossy(SubSeq(current_content, 1, new_size))
    ELSE from_utf8_lossy(current_content)

\* the body setattr computes for a new size
ResizeContent(current_content, new_size) ==
    IF new_size < Len(current_content)
    THEN from_utf8_lossy(SubSeq(current_content, 1, new_size))
    ELSE from_utf8_lossy(ZeroPad(current_content, new_size))

\* size: None
NoSize == -1

\* SqliteFS::setattr, with mode, uid and gid not given
setattr(s, ino, size, t) ==
    IF ~has_path(s, ino) THEN Reply(s, Error("ENOENT"))
    ELSE
      LET sp == SplitPath(get_path_from_inode(s, ino))
          pid == get_parent_folder_id(s, sp.parent)
          db_title == strip_md_suffix(sp.name)
          note_row == find_note(s, pid.id, db_title)
          new_notes == IF size = NoSize THEN s.notes
                       ELSE update_note_body(s.notes, pid.id, db_title,
                                             ResizeContent(note_row.body, size), t)
          now_row == FirstRow(Matching(new_notes, pid.id, db_title))
      IN IF ~pid.ok THEN Reply(s, Error("ENOENT"))
         ELSE IF note_row.id = -1 THEN Reply(s, Error("ENOENT"))
         ELSE Outcome(FileAttr(ino, Len(now_row.body), now_row.created_time,
                               now_row.updated_time),
                      s.folders, new_notes, s.reg)

\* UPDATE <table> SET title, parent_id, user_updated_time
\*   WHERE parent_id = ?4 AND title = ?5 AND deleted_time = 0
update_title_and_parent(table, new_title, new_parent_id, t, parent_id, old_title) ==
    {IF r \in Matching(table, parent_id, old_title)
     THEN [r EXCEPT !.title = new_title, !.parent_id = new_parent_id,
                    !.user_updated_time = t]
     ELSE r : r \in table}

\* RenameFileInode with the old path removed and the new one never inserted
RenameFileInode_forget_only(reg, old_path, new_path) ==
    IF old_path \in DOMAIN reg.inode_map
    THEN [reg EXCEPT
            !.inode_map = MapRemove(reg.inode_map, old_path),
            !.reverse_inode_map =
                MapRemove(reg.reverse_inode_map, reg.inode_map[old_path])]
    ELSE reg

\* the registry after a note rename: the one old path is replaced by the new one
RenameFileInode(reg, old_path, new_path) ==
    IF old_path \in DOMAIN reg.inode_map
    THEN LET inode == reg.inode_map[old_path]
         IN [reg EXCEPT
               !.inode_map = MapInsert(MapRemove(reg.inode_map, old_path),
                                       new_path, inode),
               !.reverse_inode_map = MapInsert(reg.reverse_inode_map, inode, new_path)]
    ELSE reg

\* the registered paths a folder rename collects: path.starts_with(&old_path)
PathsToUpdate(reg, old_path) ==
    {path \in DOMAIN reg.inode_map : StartsWith(path, old_path)}

\* path.replacen(&old_path, &new_path, 1) for a path that starts with old_path
ReplacePrefix(path, old_path, new_path) == new_path \o DropFirst(path, Len(old_path))

RECURSIVE ApplyPathUpdates(_, _, _, _, _)
\* the second loop of a folder rename, over the collected paths in the order
\* the HashMap iteration produced them; inodes are those collected (of from)
ApplyPathUpdates(reg, from, order, old_path, new_path) ==
    IF order = <<>> THEN reg
    ELSE LET path == Head(order)
             new_descendant_path == ReplacePrefix(path, old_path, new_path)
             inode == from[path]
         IN ApplyPathUpdates(
              [reg EXCEPT
                 !.inode_map = MapInsert(MapRemove(reg.inode_map, path),
                                         new_descendant_path, inode),
                 !.reverse_inode_map =
                     MapInsert(reg.reverse_inode_map, inode, new_descendant_path)],
              from, Tail(order), old_path, new_path)

\* the orders in which a HashMap may iterate over the paths in S
Orders(S) == {o \in [1..Cardinality(S) -> S] : \A p \in S : \E i \in DOMAIN o : o[i] = p}

\* the orders in which the folder branch of a rename may meet the paths it collects
RenameOrders(s, parent, name) ==
    IF has_path(s, parent) /\ to_str_ok(name)
    THEN Orders(PathsToUpdate(s.reg, JoinPath(get_path_from_inode(s, parent), name)))
    ELSE {<<>>}

\* SqliteFS::rename
rename(s, parent, name, newparent, newname, t, order) ==
    IF ~to_str_ok(name) \/ ~to_str_ok(newname) THEN Reply(s, Error("EINVAL"))
    ELSE IF ~has_path(s, parent) \/ ~has_path(s, newparent)
    THEN Reply(s, Error("ENOENT"))
    ELSE
      LET parent_path == get_path_from_inode(s, parent)
          new_parent_path == get_path_from_inode(s, newparent)
          pid == get_parent_folder_id(s, parent_path)
          npid == get_parent_folder_id(s, new_parent_path)
          old_title == strip_md_suffix(name)
          new_title == strip_md_suffix(newname)
          old_path == JoinPath(parent_path, name)
          new_path == JoinPath(new_parent_path, newname)
      IN IF ~pid.ok \/ ~npid.ok THEN Reply(s, Error("ENOENT"))
         ELSE IF Matching(s.notes, pid.id, old_title) # {}
         THEN Outcome([code |-> "ok"], s.folders,
                      update_title_and_parent(s.notes, new_title, npid.id, t,
                                              pid.id, old_title),
                      RenameFileInode(s.reg, old_path, new_path))
         ELSE IF Matching(s.folders, pid.id, name) # {}
         THEN Outcome([code |-> "ok"],
                      update_title_and_parent(s.folders, newname, npid.id, t,
                                              pid.id, name),
                      s.notes,
                      ApplyPathUpdates(s.reg, s.reg.inode_map, order,
                                       old_path, new_path))
         ELSE Reply(s, Error("ENOENT"))

\* the registry after unlink or rmdir forgets a path
ForgetPath(reg, path) ==
    IF path \in DOMAIN reg.inode_map
    THEN [reg EXCEPT
            !.inode_map = MapRemove(reg.inode_map, path),
            !.reverse_inode_map =
                MapRemove(reg.reverse_inode_map, reg.inode_map[path])]
    ELSE reg

\* DELETE FROM notes WHERE id = (the latest undeleted row of parent_id, title)
delete_note_latest(s, parent_id, title) ==
    {r \in s.notes : r.id # find_note(s, parent_id, title).id}

\* SqliteFS::unlink
unlink(s, parent, name) ==
    IF ~to_str_ok(name) THEN Reply(s, Error("EINVAL"))
    ELSE IF ~has_path(s, parent) THEN Reply(s, Error("ENOENT"))
    ELSE
      LET parent_path == get_path_from_inode(s, parent)
          pid == get_parent_folder_id(s, parent_path)
          title == strip_md_suffix(name)
      IN IF ~pid.ok THEN Reply(s, Error("ENOENT"))
         ELSE IF find_note(s, pid.id, title).id # -1
         THEN Outcome([code |-> "ok"], s.folders,
                      delete_note_latest(s, pid.id, title),
                      ForgetPath(s.reg, JoinPath(parent_path, name)))
         ELSE Reply(s, Error("ENOENT"))

\* IsEmptyFolder with the deleted_time = 0 condition left out of both counts
IsEmptyFolder_counts_deleted(s, folder_id) ==
    ~(Cardinality({r \in s.folders : r.parent_id = folder_id}) > 0
      \/ Cardinality({r \in s.notes : r.parent_id = folder_id}) > 0)

\* the emptiness check of rmdir: both COUNT(*) queries give 0
IsEmptyFolder(s, folder_id) ==
    ~(Cardinality(ChildrenOf(s.folders, folder_id)) > 0
      \/ Cardinality(ChildrenOf(s.notes, folder_id)) > 0)

\* DELETE FROM folders WHERE id = ?1
delete_folder_by_id(s, folder_id) == {r \in s.folders : r.id # folder_id}

\* SqliteFS::rmdir
rmdir(s, parent, name) ==
    IF ~to_str_ok(name) THEN Reply(s, Error("EINVAL"))
    ELSE IF ~has_path(s, parent) THEN Reply(s, Error("ENOENT"))
    ELSE
      LET parent_path == get_path_from_inode(s, parent)
          pid == get_parent_folder_id(s, parent_path)
          folder_id == find_folder(s, pid.id, name).id
      IN IF ~pid.ok THEN Reply(s, Error("ENOENT"))
         ELSE IF folder_id = -1 THEN Reply(s, Error("ENOENT"))
         ELSE IF ~IsEmptyFolder(s, folder_id) THEN Reply(s, Error("ENOTEMPTY"))
         ELSE Outcome([code |-> "ok"], delete_folder_by_id(s, folder_id), s.notes,
                      ForgetPath(s.reg, JoinPath(parent_path, name)))

----------------------------------------------------------------------------
(* The stores a mount may start from, and the arguments of the upcalls *)

NameA == <<"a">>

NameAmd == <<"a", ".", "m", "d">>

NameAb == <<"a", "b">>

\* a name that is not valid UTF-8
NameBad == <<BadChar>>

Names == {NameA, NameAmd, NameAb, NameBad}

\* the (name, newname) pairs of rename: every pair of valid names, and the
\* invalid name on either side
RenamePairs ==
    ((Names \ {NameBad}) \X (Names \ {NameBad}))
        \cup {<<NameBad, NameA>>, <<NameA, NameBad>>}

BodyX == <<120>>

BodyY == <<121>>

BodyXY == <<120, 121>>

BodyXYX == <<120, 121, 120>>

\* the payloads of write: ASCII text, and a byte that is not UTF-8
Datas == {BodyX, BodyXY, <<255>>}

Offsets == 0..MaxOffset

ReadSizes == {1, MaxSize}

SetattrSizes == {NoSize, 0, 1, MaxOffset + 1}

\* an empty store
SeedEmpty == [folders |-> {}, notes |-> {}]

\* /a holds the note a.md and the empty folder ab; /ab holds a deleted note only
SeedTree ==
    [folders |-> {FolderRow(1, NameA, RootId, 1, 1, 0),
                  FolderRow(2, NameAb, RootId, 1, 1, 0),
                  FolderRow(3, NameAb, 1, 1, 1, 0)},
     notes |-> {NoteRow(11, NameA, 1, BodyXYX, 1, 2, 0),
                NoteRow(12, NameA, 2, BodyX, 1, 1, 2)}]

\* the root holds two live notes titled a of different age and a deleted one,
\* and two live notes titled ab of the same age
SeedDups ==
    [folders |-> {},
     notes |-> {NoteRow(11, NameA, RootId, BodyXY, 1, 1, 0),
                NoteRow(12, NameA, RootId, BodyX, 1, 2, 0),
                NoteRow(13, NameA, RootId, BodyY, 2, 2, 1),
                NoteRow(14, NameAb, RootId, BodyX, 1, 1, 0),
                NoteRow(15, NameAb, RootId, BodyY, 1, 1, 0)}]

\* the root holds a folder and a note that are both titled a
SeedShadow ==
    [folders |-> {FolderRow(1, NameA, RootId, 1, 1, 0)},
     notes |-> {NoteRow(11, NameA, RootId, BodyXY, 1, 1, 0)}]

\* the root holds a note whose title itself ends in .md, and the note ab
SeedSuffix ==
    [folders |-> {},
     notes |-> {NoteRow(11, NameAmd, RootId, BodyX, 1, 1, 0),
                NoteRow(12, NameAb, RootId, BodyXYX, 1, 1, 0)}]

\* the root holds two live folders titled a: the older holds a note, the
\* newer is empty
SeedDupFolders ==
    [folders |-> {FolderRow(1, NameA, RootId, 1, 1, 0),
                  FolderRow(2, NameA, RootId, 1, 2, 0)},
     notes |-> {NoteRow(11, NameA, 1, BodyXY, 1, 1, 0)}]

Seeds == {SeedEmpty, SeedTree, SeedDups, SeedShadow, SeedSuffix, SeedDupFolders}

\* the inodes the kernel passes: every one handed out so far, and the next one
Inodes == 1..next_inode

\* the readings of the clock an upcall may take
Times == now..Min(now + 1, MaxTime)

NoCreate == [ino |-> 0]

----------------------------------------------------------------------------
(* The state machine *)

\* the three fields of SqliteFS that make up the registry
Registry ==
    [inode_map |-> inode_map, reverse_inode_map |-> reverse_inode_map,
     next_inode |-> next_inode]

\* the state the handlers run on
Cur == [folders |-> folders, notes |-> notes, reg |-> Registry]

\* SqliteFS::new on one of the stores
Init ==
    /\ \E seed \in Seeds : folders = seed.folders /\ notes = seed.notes
    /\ inode_map = (RootPath :> 1)
    /\ reverse_inode_map = (1 :> RootPath)
    /\ next_inode = 2
    /\ now = 2
    /\ next_uuid = 20
    /\ tie \in {"rowid_asc", "rowid_desc"}
    /\ steps = 0
    /\ last = [op |-> "mount"]
    /\ pre = Cur
    /\ prev_create = NoCreate
    /\ issued = {}

\* one upcall: call names it and its arguments, r is what its handler leaves
\* behind, t the clock reading it took, uuid the next unused identifier
Dispatch(call, r, t, uuid) ==
    /\ steps' = steps + 1
    /\ folders' = r.folders
    /\ notes' = r.notes
    /\ inode_map' = r.reg.inode_map
    /\ reverse_inode_map' = r.reg.reverse_inode_map
    /\ next_inode' = r.reg.next_inode
    /\ now' = t
    /\ next_uuid' = uuid
    /\ last' = call @@ [reply |-> r.reply]
    /\ pre' = Cur
    /\ prev_create' = IF last.op = "create" /\ last.reply.code = "ok"
                      THEN [ino |-> last.reply.ino, parent |-> last.parent,
                            name |-> last.name]
                      ELSE NoCreate
    /\ issued' = IF call.op \in {"lookup", "mkdir", "create"} /\ r.reply.code = "ok"
                 THEN issued \cup {[ino |-> r.reply.ino, kind |-> r.reply.kind]}
                 ELSE issued
    /\ UNCHANGED tie

\* the kernel has upcalls left to make
Running == steps < MaxOps

\* a handler that stores the clock reads it as t; one that stores nothing
\* leaves no trace of the reading, which is then taken to be now
Stamps(r, t) == r.reply.code = "ok" \/ t = now

Lookup ==
    /\ Running
    /\ \E parent \in Inodes, name \in Names :
        Dispatch([op |-> "lookup", parent |-> parent, name |-> name],
                 lookup(Cur, parent, name), now, next_uuid)

Getattr ==
    /\ Running
    /\ \E ino \in Inodes :
        Dispatch([op |-> "getattr", ino |-> ino], getattr(Cur, ino), now, next_uuid)

Read ==
    /\ Running
    /\ \E ino \in Inodes, offset \in Offsets, size \in ReadSizes :
        Dispatch([op |-> "read", ino |-> ino, offset |-> offset, size |-> size],
                 read(Cur, ino, offset, size), now, next_uuid)

Readdir ==
    /\ Running
    /\ \E ino \in Inodes, offset \in Offsets :
        Dispatch([op |-> "readdir", ino |-> ino, offset |-> offset],
                 readdir(Cur, ino, offset), now, next_uuid)

Mkdir ==
    /\ Running
    /\ \E parent \in Inodes, name \in Names, t \in Times :
        LET r == mkdir(Cur, parent, name, next_uuid, t)
        IN /\ Stamps(r, t)
           /\ Dispatch([op |-> "mkdir", parent |-> parent, name |-> name], r, t,
                       IF r.reply.code = "ok" THEN next_uuid + 1 ELSE next_uuid)

Create ==
    /\ Running
    /\ \E parent \in Inodes, name \in Names, t \in Times :
        LET r == create(Cur, parent, name, next_uuid, t)
        IN /\ Stamps(r, t)
           /\ Dispatch([op |-> "create", parent |-> parent, name |-> name], r, t,
                       IF r.reply.code = "ok" THEN next_uuid + 1 ELSE next_uuid)

Write ==
    /\ Running
    /\ \E ino \in Inodes, offset \in Offsets, data \in Datas, t \in Times :
        LET r == write(Cur, ino, offset, data, t)
        IN /\ Stamps(r, t)
           /\ Dispatch([op |-> "write", ino |-> ino, offset |-> offset,
                        data |-> data], r, t, next_uuid)

Open ==
    /\ Running
    /\ \E ino \in Inodes :
        Dispatch([op |-> "open", ino |-> ino], open(Cur, ino), now, next_uuid)

Setattr ==
    /\ Running
    /\ \E ino \in Inodes, size \in SetattrSizes, t \in Times :
        LET r == setattr(Cur, ino, size, t)
        IN /\ (Stamps(r, t) /\ size # NoSize) \/ t = now
           /\ Dispatch([op |-> "setattr", ino |-> ino, size |-> size], r, t,
                       next_uuid)

Flush ==
    /\ Running
    /\ \E ino \in Inodes :
        Dispatch([op |-> "flush", ino |-> ino], flush(Cur, ino), now, next_uuid)

Release ==
    /\ Running
    /\ \E ino \in Inodes :
        Dispatch([op |-> "release", ino |-> ino], release(Cur, ino), now, next_uuid)

\* the kernel refuses to move a directory into itself or below itself before
\* it makes the upcall
IntoItself(s, parent, name, newparent) ==
    /\ has_path(s, parent)
    /\ has_path(s, newparent)
    /\ StartsWith(get_path_from_inode(s, newparent) \o Slash,
                  JoinPath(get_path_from_inode(s, parent), name) \o Slash)

Rename ==
    /\ Running
    /\ \E parent \in Inodes, newparent \in Inodes, names \in RenamePairs, t \in Times :
        /\ ~IntoItself(Cur, parent, names[1], newparent)
        /\ \E order \in RenameOrders(Cur, parent, names[1]) :
              LET r == rename(Cur, parent, names[1], newparent, names[2], t, order)
              IN /\ Stamps(r, t)
                 /\ Dispatch([op |-> "rename", parent |-> parent, name |-> names[1],
                              newparent |-> newparent, newname |-> names[2]],
                             r, t, next_uuid)

Unlink ==
    /\ Running
    /\ \E parent \in Inodes, name \in Names :
        Dispatch([op |-> "unlink", parent |-> parent, name |-> name],
                 unlink(Cur, parent, name), now, next_uuid)

Rmdir ==
    /\ Running
    /\ \E parent \in Inodes, name \in Names :
        Dispatch([op |-> "rmdir", parent |-> parent, name |-> name],
                 rmdir(Cur, parent, name), now, next_uuid)

Next ==
    \/ Lookup
    \/ Getattr
    \/ Read
    \/ Readdir
    \/ Mkdir
    \/ Create
    \/ Write
    \/ Open
    \/ Setattr
    \/ Flush
    \/ Release
    \/ Rename
    \/ Unlink
    \/ Rmdir

Spec == Init /\ [][Next]_vars

----------------------------------------------------------------------------
(* The name codec on its own: strip_md_suffix and add_md_suffix applied to  *)
(* every name of up to MaxNameLen characters                                *)

CodecChars == {"a", ".", "m", "d"}

CodecNames == UNION {[1..n -> CodecChars] : n \in 0..MaxNameLen}

\* a mount of the empty store, and a name the codec is about to be given
InitCodec ==
    /\ folders = {}
    /\ notes = {}
    /\ inode_map = (RootPath :> 1)
    /\ reverse_inode_map = (1 :> RootPath)
    /\ next_inode = 2
    /\ now = 2
    /\ next_uuid = 20
    /\ tie = "rowid_asc"
    /\ steps = 0
    /\ \E name \in CodecNames :
           last = [op |-> "name", input |-> name, result |-> name]
    /\ pre = Cur
    /\ prev_create = NoCreate
    /\ issued = {}

\* one application of the codec function called op, giving result
ApplyCodec(op, result) ==
    /\ steps < MaxCodecOps
    /\ steps' = steps + 1
    /\ last' = [op |-> op, input |-> last.input, arg |-> last.result,
                result |-> result, after |-> last.op]
    /\ UNCHANGED <<folders, notes, inode_map, reverse_inode_map, next_inode, now,
                   next_uuid, tie, pre, prev_create, issued>>

StripMdSuffix == ApplyCodec("strip_md_suffix", strip_md_suffix(last.result))

AddMdSuffix == ApplyCodec("add_md_suffix", add_md_suffix(last.result))

NextCodec ==
    \/ StripMdSuffix
    \/ AddMdSuffix

SpecCodec == InitCodec /\ [][NextCodec]_vars

----------------------------------------------------------------------------
(* Checks of the upcall contracts.  The last upcall dispatched is in last,  *)
(* the state it ran on in pre and the state it left in Cur; an upcall that  *)
(* follows is the handler applied to Cur.                                   *)

\* the last upcall was op and replied success
Did(op) == last.op = op /\ last.reply.code = "ok"

\* the note the path of a registered inode resolves to in state s
NoteOfInode(s, ino) ==
    LET sp == SplitPath(s.reg.reverse_inode_map[ino])
    IN find_note(s, get_parent_folder_id(s, sp.parent).id, strip_md_suffix(sp.name))

\* every undeleted note with the key the path of a registered inode resolves to
NotesOfInode(s, ino) ==
    LET sp == SplitPath(s.reg.reverse_inode_map[ino])
    IN Matching(s.notes, get_parent_folder_id(s, sp.parent).id,
                strip_md_suffix(sp.name))

\* C1: once create(d, name), with name ending in ".md", has returned inode A
\* and write(A, 0, data), with data UTF-8 text, has replied success,
\* read(A, 0, size) with size >= len(data) returns exactly data.  The first
\* conjunct is about a write dispatched right after the create, the second
\* about every write that can follow a create just dispatched.
C1_CreateWriteRead ==
    /\ (/\ Did("write")
        /\ prev_create.ino = last.ino
        /\ EndsWith(prev_create.name, MdSuffix)
        /\ last.offset = 0
        /\ IsUtf8(last.data))
       => \A size \in ReadSizes :
              size >= Len(last.data)
              => read(Cur, last.ino, 0, size).reply
                     = [code |-> "ok", data |-> last.data]
    /\ (Did("create") /\ EndsWith(last.name, MdSuffix))
       => \A data \in Datas, t \in Times, size \in ReadSizes :
              LET w == write(Cur, last.reply.ino, 0, data, t)
              IN (IsUtf8(data) /\ w.reply.code = "ok" /\ size >= Len(data))
                 => read(w, last.reply.ino, 0, size).reply
                        = [code |-> "ok", data |-> data]

\* a create of a.md beside an older note of the same title, then a write of
\* two bytes at offset 0 that a large read gives back
C1_Witness ==
    /\ Did("write")
    /\ prev_create.ino = last.ino
    /\ EndsWith(prev_create.name, MdSuffix)
    /\ last.offset = 0
    /\ last.data = BodyXY
    /\ Cardinality(NotesOfInode(Cur, last.ino)) > 1
    /\ read(Cur, last.ino, 0, MaxSize).reply = [code |-> "ok", data |-> BodyXY]

\* C2: read(ino, offset, size) on a note inode returns exactly the bytes
\* body[offset .. min(offset + size, len(body))] of the latest undeleted note
\* the path of the inode resolves to, and never more than size bytes.
C2_ReadReturnsSlice ==
    Did("read")
    => LET body == NoteOfInode(pre, last.ino).body
       IN /\ last.reply.data
                 = SubSeq(body, last.offset + 1,
                          Min(last.offset + last.size, Len(body)))
          /\ Len(last.reply.data) <= last.size

\* C3: when several undeleted notes share (parent_id, title), write and
\* setattr(size) change only the row with the greatest user_updated_time:
\* at most one row of the key differs afterwards, no other row of the key is
\* newer than it, and every other row of the table is as it was.
C3_UpdatesLatestRowOnly ==
    (Did("write") \/ (Did("setattr") /\ last.size # NoSize))
    => LET rows == NotesOfInode(pre, last.ino)
           changed == {r \in pre.notes : r \notin notes}
       IN /\ Cardinality(changed) <= 1
          /\ \A r \in changed :
                 /\ r \in rows
                 /\ \A q \in rows : q.user_updated_time <= r.user_updated_time

\* the path an upcall on (parent, name) names in state s
PathOf(s, parent, name) == JoinPath(get_path_from_inode(s, parent), name)

\* the folder identifier the path of registered inode d resolves to in state s
FolderIdOf(s, d) == get_parent_folder_id(s, get_path_from_inode(s, d))

\* in state s an undeleted note is shown as name in the registered directory d
\* (lookup(d, name) resolves to it) and its path has an inode
NoteShownAs(s, d, name) ==
    /\ has_path(s, d)
    /\ to_str_ok(name)
    /\ PathOf(s, d, name) \in DOMAIN s.reg.inode_map
    /\ LET l == lookup(s, d, name).reply
       IN l.code = "ok" /\ l.kind = "RegularFile"

\* rename(d1, old, d2, new) leaves the note under the key it had in state s
KeepsKey(s, d1, old, d2, new) ==
    /\ FolderIdOf(s, d1) = FolderIdOf(s, d2)
    /\ strip_md_suffix(old) = strip_md_suffix(new)

\* after rename(d1, old, d2, new) took s0 to s1: lookup(d2, new) returns the
\* inode the old path had
NewNameHasInode(s0, s1, d1, old, d2, new) ==
    LET l == lookup(s1, d2, new).reply
    IN l.code = "ok" /\ l.ino = s0.reg.inode_map[PathOf(s0, d1, old)]

\* after rename(d1, old, d2, new) took s0 to s1: lookup(d1, old) replies ENOENT
OldNameGone(s1, d1, old) == lookup(s1, d1, old).reply = Error("ENOENT")

\* C4 as claimed: for registered parents d1 and d2 and an undeleted note shown
\* as old in d1 whose path has inode I, after rename(d1, old, d2, new) replies
\* success lookup(d1, old) replies ENOENT and lookup(d2, new) returns inode I.
C4_RenameMovesNote ==
    (Did("rename") /\ NoteShownAs(pre, last.parent, last.name))
    => /\ OldNameGone(Cur, last.parent, last.name)
       /\ NewNameHasInode(pre, Cur, last.parent, last.name,
                          last.newparent, last.newname)

\* C4 as amended: for registered parents d1 and d2 and an undeleted note shown
\* as old in d1 whose path has inode I, after rename(d1, old, d2, new) replies
\* success lookup(d2, new) returns inode I, and lookup(d1, old) replies ENOENT
\* unless d2 resolves to the folder d1 resolves to and new strips to the title
\* old strips to, when lookup(d1, old) still finds the note.  The first
\* conjunct is about the rename dispatched, the second about every rename
\* that can follow a lookup of a note just dispatched.
C4_RenameMovesNoteUnlessSameKey ==
    /\ (Did("rename") /\ NoteShownAs(pre, last.parent, last.name))
       => /\ NewNameHasInode(pre, Cur, last.parent, last.name,
                             last.newparent, last.newname)
          /\ IF KeepsKey(pre, last.parent, last.name, last.newparent, last.newname)
             THEN lookup(Cur, last.parent, last.name).reply.code = "ok"
             ELSE OldNameGone(Cur, last.parent, last.name)
    /\ (Did("lookup") /\ last.reply.kind = "RegularFile")
       => \A d2 \in Inodes, new \in Names, t \in Times :
              LET r == rename(Cur, last.parent, last.name, d2, new, t, <<>>)
              IN r.reply.code = "ok"
                 => /\ NewNameHasInode(Cur, r, last.parent, last.name, d2, new)
                    /\ IF KeepsKey(Cur, last.parent, last.name, d2, new)
                       THEN lookup(r, last.parent, last.name).reply.code = "ok"
                       ELSE OldNameGone(r, last.parent, last.name)

\* a registered note renamed to another title: the old name is gone and the
\* new name has the inode
C4_Witness ==
    /\ Did("rename")
    /\ NoteShownAs(pre, last.parent, last.name)
    /\ ~KeepsKey(pre, last.parent, last.name, last.newparent, last.newname)
    /\ OldNameGone(Cur, last.parent, last.name)
    /\ NewNameHasInode(pre, Cur, last.parent, last.name,
                       last.newparent, last.newname)

\* C5: after unlink(d, name) replies success for a note name ending in ".md",
\* the next lookup(d, name) replies ENOENT, whatever rows the store held
\* before the unlink.
C5_UnlinkThenLookup ==
    (Did("unlink") /\ EndsWith(last.name, MdSuffix))
    => lookup(Cur, last.parent, last.name).reply = Error("ENOENT")

\* the rows of table a rename(parent, name, ...) dispatched in state s acts on:
\* the notes titled strip_md_suffix(name) and, when there is none, the folders
\* titled name
RenamedRows(s, parent, name) ==
    LET pid == FolderIdOf(s, parent).id
    IN IF Matching(s.notes, pid, strip_md_suffix(name)) # {}
       THEN [table |-> "notes", rows |-> Matching(s.notes, pid, strip_md_suffix(name)),
             title |-> strip_md_suffix(name)]
       ELSE [table |-> "folders", rows |-> Matching(s.folders, pid, name),
             title |-> name]

\* the registered path resolves in state s to the key (parent_id, title) of
\* the given table
PathNames(s, path, table, parent_id, title) ==
    /\ path # RootPath
    /\ LET sp == SplitPath(path)
           pid == get_parent_folder_id(s, sp.parent)
       IN /\ pid.ok
          /\ pid.id = parent_id
          /\ IF table = "notes" THEN strip_md_suffix(sp.name) = title
             ELSE sp.name = title

\* C6: rename is atomic.  Either the reply is success, every row renamed
\* carries the new title and parent, and every registry entry that referred
\* to the renamed entity now names its new path with the same inode; or the
\* reply is an error and store and registry are exactly as before.
C6_RenameAtomic ==
    last.op = "rename"
    => IF last.reply.code = "ok"
       THEN LET ent == RenamedRows(pre, last.parent, last.name)
                npid == FolderIdOf(pre, last.newparent).id
                new_title == IF ent.table = "notes"
                             THEN strip_md_suffix(last.newname) ELSE last.newname
                table == IF ent.table = "notes" THEN notes ELSE folders
            IN /\ \A r \in ent.rows :
                      \E q \in table : /\ q.id = r.id
                                       /\ q.title = new_title
                                       /\ q.parent_id = npid
               /\ \A path \in DOMAIN pre.reg.inode_map :
                      PathNames(pre, path, ent.table, FolderIdOf(pre, last.parent).id,
                                ent.title)
                      => LET inode == pre.reg.inode_map[path]
                         IN /\ inode \in DOMAIN reverse_inode_map
                            /\ PathNames(Cur, reverse_inode_map[inode], ent.table,
                                         npid, new_title)
                            /\ inode_map[reverse_inode_map[inode]] = inode
       ELSE Cur = pre

\* C7: for every inode i other than 1 that a successful lookup, create or
\* mkdir returned and that is still registered, getattr(i) reports the kind
\* that upcall reported and the current byte length of the entity's body
\* (0 for a folder), whatever upcalls came in between.
C7_GetattrKindAndSize ==
    \A e \in issued :
        (e.ino # 1 /\ e.ino \in DOMAIN reverse_inode_map)
        => LET g == getattr(Cur, e.ino).reply
           IN /\ g.code = "ok"
              /\ g.kind = e.kind
              /\ g.size = IF e.kind = "Directory" THEN 0
                          ELSE Len(NoteOfInode(Cur, e.ino).body)

----------------------------------------------------------------------------
(* Checks of the name codec, under SpecCodec *)

\* the codec has applied first, then second, to the name drawn at the start
Composed(first, second) ==
    /\ steps = 2
    /\ last.op = second
    /\ last.after = first

\* C8: for every name, add_md_suffix(strip_md_suffix(name)) is either name
\* or name + ".md".
C8_AddAfterStrip ==
    Composed("strip_md_suffix", "add_md_suffix")
    => last.result \in {last.input, last.input \o MdSuffix}

\* C9: for every stored title t, strip_md_suffix(add_md_suffix(t)) = t.
C9_StripAfterAdd ==
    Composed("add_md_suffix", "strip_md_suffix") => last.result = last.input

----------------------------------------------------------------------------
(* Checks of rmdir *)

\* rmdir(parent, name) was dispatched on an existing undeleted folder
RmdirOfFolder ==
    /\ last.op = "rmdir"
    /\ to_str_ok(last.name)
    /\ has_path(pre, last.parent)
    /\ FolderIdOf(pre, last.parent).ok
    /\ Matching(pre.folders, FolderIdOf(pre, last.parent).id, last.name) # {}

\* the row rmdir(parent, name) is about: the latest of (parent_id, name)
RmdirTarget == find_folder(pre, FolderIdOf(pre, last.parent).id, last.name)

\* the undeleted rows of both tables whose parent is the folder
UndeletedChildren(s, folder_id) ==
    {r \in s.folders \cup s.notes : r.parent_id = folder_id /\ r.deleted_time = 0}

\* C10: rmdir(parent, name) on an existing undeleted folder, the latest row
\* of (parent_id, name), replies success and deletes that row iff the folder
\* has no undeleted child folder and no undeleted child note; otherwise it
\* replies ENOTEMPTY and changes neither the store nor the registry.
C10_RmdirIffEmpty ==
    RmdirOfFolder
    => IF UndeletedChildren(pre, RmdirTarget.id) = {}
       THEN /\ last.reply = [code |-> "ok"]
            /\ folders = pre.folders \ {RmdirTarget}
            /\ notes = pre.notes
       ELSE /\ last.reply = Error("ENOTEMPTY")
            /\ Cur = pre

\* a folder that holds only a deleted note is removed
C10_Witness ==
    /\ RmdirOfFolder
    /\ last.reply = [code |-> "ok"]
    /\ \E r \in pre.notes : r.parent_id = RmdirTarget.id /\ r.deleted_time # 0
    /\ RmdirTarget \notin folders

----------------------------------------------------------------------------
(* Claims C11 .. C20.                                                       *)

\* C11 as claimed: after write(ino, 0, D) on a note replies success the
\* stored body of the note is exactly D, whatever the body was before.
C11_WriteAtZeroReplaces ==
    (Did("write") /\ last.offset = 0)
    => NoteOfInode(Cur, last.ino).body = last.data

\* C11, amended: after write(ino, 0, D) on a note, with D valid UTF-8, replies
\* success, the stored body of the note is exactly D, whatever the body was
\* before; a D that is not valid UTF-8 is stored as its lossy decoding.
C11_WriteAtZeroReplacesText ==
    (Did("write") /\ last.offset = 0)
    => LET body == NoteOfInode(Cur, last.ino).body
       IN /\ IsUtf8(last.data) => body = last.data
          /\ body = from_utf8_lossy(last.data)

\* a one-byte write at offset 0 over a body of three bytes
C11_Witness ==
    /\ Did("write")
    /\ last.offset = 0
    /\ last.data = BodyX
    /\ NoteOfInode(pre, last.ino).body = BodyXYX
    /\ NoteOfInode(Cur, last.ino).body = BodyX

\* the bytes C12 describes for a write of data at offset over body B: B padded
\* with zero bytes up to offset, then data laid over the range it covers when
\* that range lies inside, else the first offset bytes followed by data
C12_Bytes(B, offset, data) ==
    LET padded == IF offset > Len(B)
                  THEN B \o [i \in 1..(offset - Len(B)) |-> 0]
                  ELSE B
    IN IF offset + Len(data) <= Len(padded)
       THEN SubSeq(padded, 1, offset) \o data
                \o SubSeq(padded, offset + Len(data) + 1, Len(padded))
       ELSE SubSeq(padded, 1, offset) \o data

\* a read of the whole note in state w shows zero bytes in the gap between
\* the end of the old body B and offset
C12_GapReadsZero(w, ino, B, offset) ==
    LET rd == read(w, ino, 0, MaxSize).reply
    IN /\ rd.code = "ok"
       /\ \A i \in (Len(B) + 1)..offset : rd.data[i] = 0

\* write(ino, offset, data) with offset > 0 took s0 to w: the reply is
\* len(data), the stored body is stored_as of the bytes C12 describes, and
\* the padded gap reads as zero bytes
C12_Wrote(s0, w, ino, offset, data, stored) ==
    LET B == NoteOfInode(s0, ino).body
    IN /\ w.reply = [code |-> "ok", written |-> Len(data)]
       /\ NoteOfInode(w, ino).body = stored
       /\ C12_GapReadsZero(w, ino, B, offset)

\* C12 as claimed: write(ino, offset, data) with offset > 0 on a note with
\* body B stores exactly: B zero-padded to offset, with data over
\* [offset, offset + len(data)) and every other byte unchanged when that range
\* ends inside, else the first offset bytes followed by data; the reply is
\* len(data) and a later read returns zero bytes for the padded gap.  The
\* second conjunct is the same for every write that can follow a write.
C12_WriteAtOffset ==
    /\ (Did("write") /\ last.offset > 0)
       => C12_Wrote(pre, Cur @@ [reply |-> last.reply], last.ino, last.offset,
                    last.data,
                    C12_Bytes(NoteOfInode(pre, last.ino).body, last.offset,
                              last.data))
    /\ Did("write")
       => \A offset \in Offsets \ {0}, data \in Datas, t \in Times :
              LET w == write(Cur, last.ino, offset, data, t)
              IN w.reply.code = "ok"
                 => C12_Wrote(Cur, w, last.ino, offset, data,
                              C12_Bytes(NoteOfInode(Cur, last.ino).body,
                                        offset, data))

\* C12, amended: the stored body is the lossy UTF-8 decoding of the bytes
\* C12 describes, hence exactly those bytes when they are valid UTF-8; the
\* reply is len(data) and a later read returns zero bytes for the padded gap.
C12_WriteAtOffsetLossy ==
    /\ (Did("write") /\ last.offset > 0)
       => LET bytes == C12_Bytes(NoteOfInode(pre, last.ino).body, last.offset,
                                 last.data)
          IN /\ C12_Wrote(pre, Cur @@ [reply |-> last.reply], last.ino,
                          last.offset, last.data, from_utf8_lossy(bytes))
             /\ IsUtf8(bytes) => NoteOfInode(Cur, last.ino).body = bytes
    /\ Did("write")
       => \A offset \in Offsets \ {0}, data \in Datas, t \in Times :
              LET w == write(Cur, last.ino, offset, data, t)
                  bytes == C12_Bytes(NoteOfInode(Cur, last.ino).body, offset,
                                     data)
              IN w.reply.code = "ok"
                 => /\ C12_Wrote(Cur, w, last.ino, offset, data,
                                 from_utf8_lossy(bytes))
                    /\ IsUtf8(bytes) => NoteOfInode(w, last.ino).body = bytes

\* a one-byte write at offset 2 over a body of one byte: the gap is one zero
C12_Witness ==
    /\ Did("write")
    /\ last.offset = 2
    /\ last.data = BodyX
    /\ NoteOfInode(pre, last.ino).body = BodyX
    /\ NoteOfInode(Cur, last.ino).body = <<120, 0, 120>>
    /\ read(Cur, last.ino, 1, 1).reply.data[1] = 0

\* a one-byte write at offset 1 over a body of three bytes: the third stays
C12_WitnessTail ==
    /\ Did("write")
    /\ last.offset = 1
    /\ last.data = BodyX
    /\ NoteOfInode(pre, last.ino).body = BodyXYX
    /\ NoteOfInode(Cur, last.ino).body = <<120, 120, 120>>

\* the body write(ino, offset, data) is to leave in a note with body B
C13_NewBody(B, offset, data) ==
    IF offset = 0 THEN from_utf8_lossy(data)
    ELSE from_utf8_lossy(C12_Bytes(B, offset, data))

\* the states the upcalls that mutate no row (lookup, getattr, read, readdir,
\* open, flush, release) can lead to from state s in at most one upcall
C13_AfterReading(s) ==
    LET inos == 1..s.reg.next_inode
    IN {s}
       \cup {lookup(s, parent, name) : parent \in inos, name \in Names}
       \cup {getattr(s, ino) : ino \in inos}
       \cup {read(s, ino, offset, size) :
                 ino \in inos, offset \in Offsets, size \in ReadSizes}
       \cup {readdir(s, ino, 0) : ino \in inos}
       \cup {open(s, ino) : ino \in inos}
       \cup {flush(s, ino) : ino \in inos}
       \cup {release(s, ino) : ino \in inos}

\* in state s a read of the whole note returns body and getattr reports a
\* regular file of its size
C13_Observes(s, ino, body) ==
    /\ read(s, ino, 0, MaxSize).reply = [code |-> "ok", data |-> body]
    /\ LET g == getattr(s, ino).reply
       IN g.code = "ok" /\ g.kind = "RegularFile" /\ g.size = Len(body)

\* C13: once write(ino, ...) has replied success, a read or a getattr of that
\* inode, made at once or after one upcall that mutates no row (in particular
\* with no flush or release in between), observes the new body and its size.
C13_WriteIsDurable ==
    Did("write")
    => LET body == C13_NewBody(NoteOfInode(pre, last.ino).body, last.offset,
                               last.data)
       IN \A s \in C13_AfterReading(Cur) : C13_Observes(s, last.ino, body)

\* in state s the registered directory parent resolves to a folder that holds
\* an undeleted folder titled n and an undeleted note titled strip_md_suffix(n)
C14_Shadowed(s, parent, n) ==
    /\ has_path(s, parent)
    /\ to_str_ok(n)
    /\ LET pid == FolderIdOf(s, parent)
       IN /\ pid.ok
          /\ Matching(s.folders, pid.id, n) # {}
          /\ Matching(s.notes, pid.id, strip_md_suffix(n)) # {}

\* a reply that describes a directory: size 0, perm 0o755, nlink 2
C14_IsDirectory(reply) ==
    /\ reply.code = "ok"
    /\ reply.kind = "Directory"
    /\ reply.size = 0
    /\ reply.perm = 493
    /\ reply.nlink = 2

\* lookup(parent, n) in state s, and getattr on the inode it returns, both
\* report a directory
C14_FolderWins(s, parent, n) ==
    LET l == lookup(s, parent, n)
    IN /\ C14_IsDirectory(l.reply)
       /\ C14_IsDirectory(getattr(l, l.reply.ino).reply)
       /\ getattr(l, l.reply.ino).reply.ino = l.reply.ino

\* C14: when an undeleted folder titled n and an undeleted note titled
\* strip_md_suffix(n) exist under the same parent, lookup(parent, n) and
\* getattr on the returned inode report a directory (size 0, perm 0o755,
\* nlink 2), never the attributes of the note.  The first conjunct is about
\* the lookup just dispatched, the second about every lookup that can follow.
C14_FolderShadowsNote ==
    /\ (last.op = "lookup" /\ C14_Shadowed(pre, last.parent, last.name))
       => /\ C14_IsDirectory(last.reply)
          /\ C14_IsDirectory(getattr(Cur, last.reply.ino).reply)
    /\ \A parent \in Inodes, n \in Names :
           C14_Shadowed(Cur, parent, n) => C14_FolderWins(Cur, parent, n)

\* a lookup of "a" under the root, which holds a folder "a" and a note "a" of
\* two bytes, has returned a directory
C14_Witness ==
    /\ Did("lookup")
    /\ C14_Shadowed(pre, last.parent, last.name)
    /\ Len(NoteOfInode(Cur, last.reply.ino).body) = 2
    /\ last.reply.kind = "Directory"
    /\ getattr(Cur, last.reply.ino).reply.kind = "Directory"

\* the rows of greatest user_updated_time among rows
C15_Latest(rows) ==
    {r \in rows : \A q \in rows : q.user_updated_time <= r.user_updated_time}

\* reply carries the timestamps of a latest row of rows and, for notes, the
\* size of its body
C15_AttrOfLatest(reply, rows) ==
    \E r \in C15_Latest(rows) :
        /\ reply.crtime = r.created_time
        /\ reply.mtime = r.updated_time
        /\ reply.kind = "RegularFile" => reply.size = Len(r.body)

\* the rows of state s a successful reply of the given kind was made from, for
\* the name in the folder with identifier id
C15_RowsFor(s, kind, id, name) ==
    IF kind = "Directory" THEN Matching(s.folders, id, name)
    ELSE Matching(s.notes, id, strip_md_suffix(name))

\* lookup(parent, name) in state s answers from a latest row when several
\* rows share the key
C15_Lookup(s, parent, name) ==
    LET l == lookup(s, parent, name).reply
        rows == C15_RowsFor(s, l.kind, FolderIdOf(s, parent).id, name)
    IN (l.code = "ok" /\ Cardinality(rows) > 1) => C15_AttrOfLatest(l, rows)

\* getattr(ino) and read(ino, 0, MaxSize) in state s answer from a latest row
\* when several rows share the key
C15_GetattrRead(s, ino) ==
    LET g == getattr(s, ino).reply
        rd == read(s, ino, 0, MaxSize).reply
        sp == SplitPath(get_path_from_inode(s, ino))
        id == get_parent_folder_id(s, sp.parent).id
        notes_of == Matching(s.notes, id, strip_md_suffix(sp.name))
    IN /\ (ino # 1 /\ g.code = "ok"
              /\ Cardinality(C15_RowsFor(s, g.kind, id, sp.name)) > 1)
          => C15_AttrOfLatest(g, C15_RowsFor(s, g.kind, id, sp.name))
       /\ (rd.code = "ok" /\ Cardinality(notes_of) > 1)
          => \E r \in C15_Latest(notes_of) : rd.data = r.body

\* how many entries of a readdir reply carry name
C15_Count(entries, name) ==
    Cardinality({k \in 1..Len(entries) : entries[k].name = name})

\* readdir(ino, 0) in state s emits the name of every key held by several
\* rows of one table exactly once
C15_Readdir(s, ino) ==
    LET rd == readdir(s, ino, 0).reply
        id == FolderIdOf(s, ino).id
    IN rd.code = "ok"
       => /\ \A r \in ChildrenOf(s.folders, id) :
                 Cardinality(Matching(s.folders, id, r.title)) > 1
                 => C15_Count(rd.entries, r.title) = 1
          /\ \A r \in ChildrenOf(s.notes, id) :
                 Cardinality(Matching(s.notes, id, r.title)) > 1
                 => C15_Count(rd.entries, add_md_suffix(r.title)) = 1

\* C15: in every reachable state, when several undeleted rows of one table
\* share (parent_id, title), lookup, getattr and read answer from a row with
\* the greatest user_updated_time (its body, size and timestamps), and a
\* readdir from offset 0 emits that name exactly once.
C15_LatestRowWins ==
    /\ \A parent \in Inodes, name \in Names : C15_Lookup(Cur, parent, name)
    /\ \A ino \in Inodes : C15_GetattrRead(Cur, ino)
    /\ \A ino \in Inodes : C15_Readdir(Cur, ino)

\* a lookup of "a.md" under the root, which holds a note "a" of two bytes and
\* a later note "a" of one byte, has returned size 1; read returns the one
\* byte and readdir lists "a.md" once
C15_Witness ==
    /\ Did("lookup")
    /\ last.reply.kind = "RegularFile"
    /\ {Len(r.body) : r \in NotesOfInode(Cur, last.reply.ino)} = {1, 2}
    /\ last.reply.size = 1
    /\ read(Cur, last.reply.ino, 0, MaxSize).reply.data = BodyX
    /\ C15_Count(readdir(Cur, last.parent, 0).reply.entries, last.name) = 1

\* the error codes an upcall replies with
C16_Errors == {"ENOENT", "EINVAL", "EIO", "ENOTEMPTY"}

\* outcome w of an upcall made in state s left the rows and the registry alone
C16_Untouched(s, w) ==
    /\ w.folders = s.folders
    /\ w.notes = s.notes
    /\ w.reg = s.reg

\* the outcomes rename, setattr and rmdir can have in state s
C16_Outcomes(s) ==
    LET inos == 1..s.reg.next_inode
    IN UNION {{rename(s, parent, pair[1], newparent, pair[2], now, order) :
                  order \in RenameOrders(s, parent, pair[1])} :
              parent \in inos, newparent \in inos, pair \in RenamePairs}
       \cup {setattr(s, ino, size, now) : ino \in inos, size \in SetattrSizes}
       \cup {rmdir(s, parent, name) : parent \in inos, name \in Names}

\* C16: whenever an upcall replies with an error (ENOENT, EINVAL, EIO or
\* ENOTEMPTY), the rows of the store and the inode registry (both maps and
\* next_inode) are what they were before the upcall.  The first conjunct is
\* about the upcall just dispatched, whichever it is, the second about every
\* rename, setattr and rmdir that can follow.
C16_ErrorChangesNothing ==
    /\ (last.op # "mount" /\ last.reply.code \in C16_Errors) => Cur = pre
    /\ \A w \in C16_Outcomes(Cur) :
           w.reply.code \in C16_Errors => C16_Untouched(Cur, w)

\* an rmdir of a folder that has children was refused after an upcall that
\* changed the store or the registry
C16_Witness ==
    /\ last.op = "rmdir"
    /\ last.reply.code = "ENOTEMPTY"
    /\ pre.reg.next_inode > 2
    /\ Cur = pre

\* the names of the model that are valid UTF-8
C17_Names == {name \in Names : to_str_ok(name)}

\* the replies of the fourteen upcalls in state s when given inode ino, with
\* every choice of their other arguments and names that are valid UTF-8;
\* rename is given ino as either parent, the other being any inode
C17_Replies(s, ino) ==
    LET inos == 1..s.reg.next_inode
        uuid == next_uuid
    IN {lookup(s, ino, name).reply : name \in C17_Names}
       \cup {getattr(s, ino).reply, open(s, ino).reply, flush(s, ino).reply,
             release(s, ino).reply}
       \cup {read(s, ino, offset, size).reply :
                 offset \in Offsets, size \in ReadSizes}
       \cup {readdir(s, ino, offset).reply : offset \in Offsets}
       \cup {mkdir(s, ino, name, uuid, now).reply : name \in C17_Names}
       \cup {create(s, ino, name, uuid, now).reply : name \in C17_Names}
       \cup {write(s, ino, offset, data, now).reply :
                 offset \in Offsets, data \in Datas}
       \cup {setattr(s, ino, size, now).reply : size \in SetattrSizes}
       \cup UNION {{rename(s, ino, old, other, new, now, order).reply :
                        order \in RenameOrders(s, ino, old)} :
                    other \in inos, old \in C17_Names, new \in C17_Names}
       \cup UNION {{rename(s, other, old, ino, new, now, order).reply :
                        order \in RenameOrders(s, other, old)} :
                    other \in inos, old \in C17_Names, new \in C17_Names}
       \cup {unlink(s, ino, name).reply : name \in C17_Names}
       \cup {rmdir(s, ino, name).reply : name \in C17_Names}

\* C17: in every reachable state, every upcall (lookup, getattr, read,
\* readdir, mkdir, create, write, open, setattr, flush, release, rename on
\* either parent, unlink, rmdir) given an inode other than 1 that is not in the
\* registry, never allocated or forgotten, replies ENOENT, the names being
\* valid UTF-8.
C17_UnknownInodeIsENOENT ==
    \A ino \in Inodes \ {1} :
        ~has_path(Cur, ino) => C17_Replies(Cur, ino) = {Error("ENOENT")}

\* an unlink has just forgotten an inode that a lookup had allocated, and
\* getattr and write on that inode now reply ENOENT
C17_Witness ==
    /\ Did("unlink")
    /\ LET path == PathOf(pre, last.parent, last.name)
       IN /\ path \in DOMAIN pre.reg.inode_map
          /\ LET ino == pre.reg.inode_map[path]
             IN /\ ino < next_inode
                /\ ~has_path(Cur, ino)
                /\ getattr(Cur, ino).reply = Error("ENOENT")
                /\ write(Cur, ino, 0, BodyX, now).reply = Error("ENOENT")

\* in state s parent is a registered inode whose path does not resolve to a
\* chain of undeleted folders
C18_ParentMissing(s, parent) ==
    /\ has_path(s, parent)
    /\ ~FolderIdOf(s, parent).ok

\* outcome w of an upcall made in state s is an ENOENT reply that inserted no
\* row and interned no path
C18_Refused(s, w) ==
    /\ w.reply = Error("ENOENT")
    /\ w.folders = s.folders
    /\ w.notes = s.notes
    /\ w.reg = s.reg

\* C18: mkdir(parent, name) and create(parent, name), when parent is a
\* registered inode whose path does not resolve to a chain of undeleted
\* folders, reply ENOENT, insert no row and intern no path.  The first
\* conjunct is about the mkdir or create just dispatched, the second about
\* every mkdir and create that can follow.
C18_MissingParentIsENOENT ==
    /\ (/\ last.op \in {"mkdir", "create"}
        /\ to_str_ok(last.name)
        /\ C18_ParentMissing(pre, last.parent))
       => C18_Refused(pre, Cur @@ [reply |-> last.reply])
    /\ \A parent \in Inodes, name \in C17_Names :
           C18_ParentMissing(Cur, parent)
           => /\ C18_Refused(Cur, mkdir(Cur, parent, name, next_uuid, now))
              /\ C18_Refused(Cur, create(Cur, parent, name, next_uuid, now))

\* the inode numbers registry reg holds, in either map
C19_Registered(reg) ==
    DOMAIN reg.reverse_inode_map \cup {reg.inode_map[p] : p \in DOMAIN reg.inode_map}

\* registry reg has the root as inode 1 and every other inode below next_inode
C19_WellFormed(reg) ==
    /\ RootPath \in DOMAIN reg.inode_map
    /\ reg.inode_map[RootPath] = 1
    /\ 1 \in DOMAIN reg.reverse_inode_map
    /\ reg.reverse_inode_map[1] = RootPath
    /\ reg.next_inode >= 2
    /\ \A i \in C19_Registered(reg) \ {1} : i < reg.next_inode

\* an upcall took registry r0 to r1: next_inode did not decrease and every
\* inode r1 holds that r0 did not hold is a number r0 had not yet reached,
\* hence none that was ever registered or forgotten before
C19_Step(r0, r1) ==
    /\ r1.next_inode >= r0.next_inode
    /\ \A i \in C19_Registered(r1) \ C19_Registered(r0) : i >= r0.next_inode

\* the registries the upcalls that intern or forget a path leave from state s
C19_Registries(s) ==
    LET inos == 1..s.reg.next_inode
    IN {lookup(s, parent, name).reg : parent \in inos, name \in Names}
       \cup {readdir(s, ino, 0).reg : ino \in inos}
       \cup {mkdir(s, parent, name, next_uuid, now).reg :
                 parent \in inos, name \in Names}
       \cup {create(s, parent, name, next_uuid, now).reg :
                 parent \in inos, name \in Names}
       \cup {unlink(s, parent, name).reg : parent \in inos, name \in Names}
       \cup {rmdir(s, parent, name).reg : parent \in inos, name \in Names}

\* C19: in every reachable state inode 1 maps to "/" and "/" maps to inode 1,
\* next_inode is at least 2 and every registered inode other than 1 is smaller
\* than next_inode; no upcall decreases next_inode, and an upcall registers no
\* inode number below the next_inode it found, so a number forgotten by unlink
\* or rmdir is never issued again.  The steps covered are the upcall just
\* dispatched, whichever it is, and every lookup, readdir, mkdir, create,
\* unlink and rmdir that can follow.
C19_RegistryWellFormed ==
    /\ C19_WellFormed(Registry)
    /\ C19_Step(pre.reg, Registry)
    /\ \A reg \in C19_Registries(Cur) :
           C19_WellFormed(reg) /\ C19_Step(Registry, reg)

\* an unlink has forgotten inode 2, and the create that can follow is given
\* inode 3, not 2
C19_Witness ==
    /\ Did("unlink")
    /\ 2 \in C19_Registered(pre.reg)
    /\ 2 \notin C19_Registered(Registry)
    /\ next_inode = 3
    /\ create(Cur, 1, last.name, next_uuid, now).reply.ino = 3

\* the upcalls C20 says never remove or re-number a registry entry
C20_Keepers ==
    {"lookup", "getattr", "read", "readdir", "mkdir", "create", "write", "open",
     "setattr", "flush", "release"}

\* registry r1 has every entry of r0: each path with the inode it had, each
\* inode with the path it had
C20_Keeps(r0, r1) ==
    /\ \A p \in DOMAIN r0.inode_map :
           p \in DOMAIN r1.inode_map /\ r1.inode_map[p] = r0.inode_map[p]
    /\ \A i \in DOMAIN r0.reverse_inode_map :
           /\ i \in DOMAIN r1.reverse_inode_map
           /\ r1.reverse_inode_map[i] = r0.reverse_inode_map[i]

\* from r0 to r1 an inode or a path has left the registry
C20_Disappears(r0, r1) ==
    \/ \E i \in DOMAIN r0.reverse_inode_map : i \notin DOMAIN r1.reverse_inode_map
    \/ \E p \in DOMAIN r0.inode_map :
           /\ p \notin DOMAIN r1.inode_map
           /\ \A i \in DOMAIN r1.reverse_inode_map :
                  i \in DOMAIN r0.reverse_inode_map
                  => r1.reverse_inode_map[i] = r0.reverse_inode_map[i]

\* from r0 to r1 an inode that stays registered has changed its path, or a
\* path that stays registered its inode
C20_Moves(r0, r1) ==
    \/ \E i \in DOMAIN r0.reverse_inode_map \cap DOMAIN r1.reverse_inode_map :
           r1.reverse_inode_map[i] # r0.reverse_inode_map[i]
    \/ \E p \in DOMAIN r0.inode_map \cap DOMAIN r1.inode_map :
           r1.inode_map[p] # r0.inode_map[p]

\* the registries the eleven upcalls of C20_Keepers leave from state s
C20_Registries(s) ==
    LET inos == 1..s.reg.next_inode
    IN {w.reg : w \in C13_AfterReading(s)}
       \cup {mkdir(s, parent, name, next_uuid, now).reg :
                 parent \in inos, name \in Names}
       \cup {create(s, parent, name, next_uuid, now).reg :
                 parent \in inos, name \in Names}
       \cup {write(s, ino, offset, data, now).reg :
                 ino \in inos, offset \in Offsets, data \in Datas}
       \cup {setattr(s, ino, size, now).reg : ino \in inos, size \in SetattrSizes}

\* C20: lookup, getattr, read, readdir, mkdir, create, write, open, setattr,
\* flush and release never remove a registry entry and never change the inode
\* of a registered path; an entry disappears only in a successful unlink or
\* rmdir, and changes its path only in a successful rename.  The first three
\* conjuncts are about the upcall just dispatched, the last about each of the
\* eleven upcalls that can follow.
C20_RegistryChangesOnlyWhere ==
    /\ last.op \in C20_Keepers => C20_Keeps(pre.reg, Registry)
    /\ C20_Disappears(pre.reg, Registry) => (Did("unlink") \/ Did("rmdir"))
    /\ C20_Moves(pre.reg, Registry) => Did("rename")
    /\ \A reg \in C20_Registries(Cur) : C20_Keeps(Registry, reg)

\* a second lookup has interned a new path as inode 3 and left the entry of
\* inode 2 as it was
C20_Witness ==
    /\ Did("lookup")
    /\ last.reply.ino = 3
    /\ 3 \notin DOMAIN pre.reg.reverse_inode_map
    /\ 2 \in DOMAIN pre.reg.reverse_inode_map
    /\ reverse_inode_map[2] = pre.reg.reverse_inode_map[2]
    /\ inode_map[reverse_inode_map[2]] = 2

----------------------------------------------------------------------------
(* Claims C21 .. C30.                                                       *)

\* the reply of a readdir lists name as a directory with inode ino
C21_Lists(reply, name, ino) ==
    /\ reply.code = "ok"
    /\ \E k \in 1..Len(reply.entries) :
           /\ reply.entries[k].name = name
           /\ reply.entries[k].kind = "Directory"
           /\ reply.entries[k].ino = ino

\* C21: after mkdir(d, X) replies success, readdir(d, 0) includes an entry
\* named X of directory kind that carries the inode mkdir returned.  The
\* first conjunct is about the mkdir just dispatched, the second about every
\* mkdir that can follow.
C21_MkdirThenReaddir ==
    /\ Did("mkdir")
       => C21_Lists(readdir(Cur, last.parent, 0).reply, last.name, last.reply.ino)
    /\ \A parent \in Inodes, name \in Names, t \in Times :
           LET w == mkdir(Cur, parent, name, next_uuid, t)
           IN w.reply.code = "ok"
              => C21_Lists(readdir(w, parent, 0).reply, name, w.reply.ino)

\* a mkdir below a directory other than the root, whose readdir lists the new
\* folder with the inode mkdir returned
C21_Witness ==
    /\ Did("mkdir")
    /\ last.parent # 1
    /\ last.reply.ino = 3
    /\ C21_Lists(readdir(Cur, last.parent, 0).reply, last.name, 3)

\* the n bytes C22 describes for body B: B[0..n] when n < len(B), B followed
\* by n - len(B) zero bytes when n > len(B), B itself when n = len(B)
C22_Bytes(B, n) ==
    IF n < Len(B) THEN SubSeq(B, 1, n)
    ELSE IF n > Len(B) THEN B \o [i \in 1..(n - Len(B)) |-> 0]
    ELSE B

\* setattr(ino, size = n) took s0 to w: the body persisted is stored, the
\* reply reports size reported, and after size = 0 a read returns empty
C22_Resized(w, ino, n, stored, reported) ==
    /\ w.reply.code = "ok"
    /\ NoteOfInode(w, ino).body = stored
    /\ w.reply.size = reported
    /\ n = 0 => read(w, ino, 0, MaxSize).reply = [code |-> "ok", data |-> <<>>]

\* C22 as claimed: setattr(ino, size = n) on a note with body B persists a
\* body of exactly n bytes (B cut to n, or B padded with zero bytes to n, or B
\* itself), the reply reports size n, and after setattr(size = 0) a read
\* returns empty.  The second conjunct is the same for every setattr that can
\* follow.
C22_SetattrResizes ==
    /\ (Did("setattr") /\ last.size # NoSize)
       => C22_Resized(Cur @@ [reply |-> last.reply], last.ino, last.size,
                      C22_Bytes(NoteOfInode(pre, last.ino).body, last.size),
                      last.size)
    /\ \A ino \in Inodes, n \in SetattrSizes \ {NoSize}, t \in Times :
           LET w == setattr(Cur, ino, n, t)
           IN w.reply.code = "ok"
              => C22_Resized(w, ino, n,
                             C22_Bytes(NoteOfInode(Cur, ino).body, n), n)

\* C22, amended: the body persisted is the lossy UTF-8 decoding of the n
\* bytes C22 describes, hence exactly those n bytes unless n cuts a
\* multi-byte character; the reply reports the size of the persisted body,
\* and after setattr(size = 0) a read returns empty.
C22_SetattrResizesLossy ==
    /\ (Did("setattr") /\ last.size # NoSize)
       => LET bytes == C22_Bytes(NoteOfInode(pre, last.ino).body, last.size)
          IN /\ C22_Resized(Cur @@ [reply |-> last.reply], last.ino, last.size,
                            from_utf8_lossy(bytes), Len(from_utf8_lossy(bytes)))
             /\ IsUtf8(bytes)
                => /\ NoteOfInode(Cur, last.ino).body = bytes
                   /\ last.reply.size = last.size
    /\ \A ino \in Inodes, n \in SetattrSizes \ {NoSize}, t \in Times :
           LET w == setattr(Cur, ino, n, t)
               bytes == C22_Bytes(NoteOfInode(Cur, ino).body, n)
           IN w.reply.code = "ok"
              => /\ C22_Resized(w, ino, n, from_utf8_lossy(bytes),
                                Len(from_utf8_lossy(bytes)))
                 /\ IsUtf8(bytes)
                    => NoteOfInode(w, ino).body = bytes /\ w.reply.size = n

\* a setattr(size = 3) on a note of two bytes has added one zero byte
C22_Witness ==
    /\ Did("setattr")
    /\ last.size = 3
    /\ NoteOfInode(pre, last.ino).body = BodyXY
    /\ NoteOfInode(Cur, last.ino).body = <<120, 121, 0>>
    /\ last.reply.size = 3

\* in state s the path of registered inode ino resolves to an undeleted note
C23_NoteExists(s, ino) ==
    /\ has_path(s, ino)
    /\ get_parent_folder_id(s, SplitPath(get_path_from_inode(s, ino)).parent).ok
    /\ NoteOfInode(s, ino).id # -1

\* C23: read(ino, offset, size) with offset >= len(body) on an existing note
\* replies with empty data, never with an error.  The first conjunct is about
\* the read just dispatched, the second about every read that can follow.
C23_ReadPastEndIsEmpty ==
    /\ (/\ last.op = "read"
        /\ C23_NoteExists(pre, last.ino)
        /\ last.offset >= Len(NoteOfInode(pre, last.ino).body))
       => last.reply = [code |-> "ok", data |-> <<>>]
    /\ \A ino \in Inodes, offset \in Offsets, size \in ReadSizes :
           (/\ C23_NoteExists(Cur, ino)
            /\ offset >= Len(NoteOfInode(Cur, ino).body))
           => read(Cur, ino, offset, size).reply = [code |-> "ok", data |-> <<>>]

\* a read at offset 2 of a note whose body has one byte has replied empty
C23_Witness ==
    /\ last.op = "read"
    /\ last.offset = 2
    /\ C23_NoteExists(pre, last.ino)
    /\ NoteOfInode(pre, last.ino).body = BodyX
    /\ last.reply = [code |-> "ok", data |-> <<>>]

\* the paths get_or_create_inode is called with: the root, every valid name
\* under the root and under /a
C24_Paths ==
    {RootPath}
    \cup {JoinPath(RootPath, name) : name \in C17_Names}
    \cup {JoinPath(JoinPath(RootPath, NameA), name) : name \in C17_Names}

\* get_or_create_inode(p), get_or_create_inode(q), get_or_create_inode(p)
\* called in this order from registry reg: p gets the same inode both times,
\* the second call for p changes nothing, q gets another inode when it is
\* another path, no path but the root gets 1, and get_path_from_inode gives
\* each path back
C24_Calls(reg, p, q) ==
    LET first == get_or_create_inode(reg, p)
        second == get_or_create_inode(first.reg, q)
        third == get_or_create_inode(second.reg, p)
    IN /\ third.inode = first.inode
       /\ third.reg = second.reg
       /\ p # q => second.inode # first.inode
       /\ p # RootPath => first.inode # 1
       /\ first.reg.reverse_inode_map[first.inode] = p
       /\ second.reg.reverse_inode_map[second.inode] = q
       /\ third.reg.reverse_inode_map[third.inode] = p

\* C24: get_or_create_inode is idempotent and injective: from the registry of
\* every reachable state, calls for paths p, q, p in this order return the
\* same inode for p, distinct inodes for distinct paths, never 1 for a path
\* other than the root, and get_path_from_inode(get_or_create_inode(p)) = p.
C24_InternIsInjective ==
    \A p \in C24_Paths, q \in C24_Paths : C24_Calls(Registry, p, q)

\* two lookups have interned two paths as inodes 2 and 3; interning the first
\* again returns 2 and leaves the registry as it is, a path not yet registered
\* gets 4
C24_Witness ==
    /\ Did("lookup")
    /\ last.reply.ino = 3
    /\ 2 \in DOMAIN reverse_inode_map
    /\ get_or_create_inode(Registry, reverse_inode_map[2])
           = [reg |-> Registry, inode |-> 2]
    /\ \E p \in C24_Paths :
           /\ p \notin DOMAIN inode_map
           /\ get_or_create_inode(Registry, p).inode = 4

\* the longest chain of components C25 is checked with
C25_MaxDepth == 2

\* the chains c1, ..., cn of components, n from 0 to C25_MaxDepth
C25_Chains ==
    UNION {[1..n -> C17_Names] : n \in 0..C25_MaxDepth}

RECURSIVE C25_PathOf(_)
\* the path /c1/.../cn of a chain, "/" for the empty chain
C25_PathOf(chain) ==
    IF chain = <<>> THEN RootPath
    ELSE JoinPath(C25_PathOf(SubSeq(chain, 1, Len(chain) - 1)), chain[Len(chain)])

\* the identifiers one move from an identifier of ids leads to: those of the
\* undeleted folders with that parent_id and title c that have the greatest
\* user_updated_time
C25_Move(s, ids, c) ==
    UNION {{r.id : r \in C15_Latest(Matching(s.folders, id, c))} : id \in ids}

RECURSIVE C25_Reach(_, _, _)
\* the identifiers reached from ids by moving along chain
C25_Reach(s, chain, ids) ==
    IF chain = <<>> THEN ids
    ELSE C25_Reach(s, Tail(chain), C25_Move(s, ids, Head(chain)))

RECURSIVE C25_Stuck(_, _, _)
\* some walk from ids along chain meets a component that has no folder
C25_Stuck(s, chain, ids) ==
    /\ chain # <<>>
    /\ \/ \E id \in ids : Matching(s.folders, id, Head(chain)) = {}
       \/ C25_Stuck(s, Tail(chain), C25_Move(s, ids, Head(chain)))

\* C25: in every reachable state get_parent_folder_id("/") returns the root
\* identifier "", and for a path /c1/.../cn it returns the identifier reached
\* from "" by moving, for each component in order, to the undeleted folder
\* with parent_id the current identifier and title the component that has the
\* greatest user_updated_time; it fails iff a component has no such folder.
C25_ResolverWalks ==
    /\ get_parent_folder_id(Cur, RootPath) = [ok |-> TRUE, id |-> RootId]
    /\ \A chain \in C25_Chains :
           LET got == get_parent_folder_id(Cur, C25_PathOf(chain))
           IN /\ got.ok => got.id \in C25_Reach(Cur, chain, {RootId})
              /\ ~got.ok => C25_Stuck(Cur, chain, {RootId})
              /\ C25_Reach(Cur, chain, {RootId}) = {} => ~got.ok

\* a mkdir below /a has made a folder that the path /a/<name> resolves to,
\* while a path through a name that is no folder fails
C25_Witness ==
    /\ Did("mkdir")
    /\ get_path_from_inode(Cur, last.parent) = JoinPath(RootPath, NameA)
    /\ LET got == get_parent_folder_id(Cur, PathOf(Cur, last.parent, last.name))
       IN /\ got.ok
          /\ got.id \notin {f.id : f \in pre.folders}
          /\ got.id \in {f.id : f \in folders}
    /\ \E chain \in C25_Chains :
           Len(chain) = 2 /\ ~get_parent_folder_id(Cur, C25_PathOf(chain)).ok

\* table after has every row of table before and exactly one more: a row
\* with an identifier no row of before has, the given title and parent_id,
\* deleted_time 0 and its four time columns equal
C26_OneNewRow(before, after, title, parent_id) ==
    /\ before \subseteq after
    /\ Cardinality(after \ before) = 1
    /\ \A r \in after \ before :
           /\ r.id \notin {q.id : q \in before}
           /\ r.title = title
           /\ r.parent_id = parent_id
           /\ r.deleted_time = 0
           /\ r.created_time = r.updated_time
           /\ r.updated_time = r.user_created_time
           /\ r.user_created_time = r.user_updated_time

\* create_folder(parent_path, name) called in state s does what C26 says
C26_Creates(s, parent_path, name, uuid, t) ==
    LET pid == get_parent_folder_id(s, parent_path)
        made == create_folder(s, parent_path, name, uuid, t)
    IN IF pid.ok
       THEN made.ok /\ C26_OneNewRow(s.folders, made.folders, name, pid.id)
       ELSE ~made.ok /\ made.folders = s.folders

\* C26: create_folder(parent_path, name) inserts exactly one new folder row,
\* with an id different from every existing id, title = name, parent_id = the
\* id the resolver returns for parent_path, deleted_time = 0 and its four time
\* columns equal; all rows that existed are unchanged, and it fails without
\* inserting when parent_path does not resolve.  The first conjunct is about
\* the call made by the mkdir just dispatched, the second about every call that
\* can follow.
C26_CreateFolderInsertsOne ==
    /\ Did("mkdir")
       => /\ C26_OneNewRow(pre.folders, folders, last.name,
                           FolderIdOf(pre, last.parent).id)
          /\ notes = pre.notes
    /\ \A parent_path \in C24_Paths, name \in C17_Names, t \in Times :
           C26_Creates(Cur, parent_path, name, next_uuid, t)

\* a mkdir below /a has inserted one folder row under the folder "a", and a
\* create_folder under a path that does not resolve would fail
C26_Witness ==
    /\ Did("mkdir")
    /\ FolderIdOf(pre, last.parent).id # RootId
    /\ Cardinality(folders) = Cardinality(pre.folders) + 1
    /\ \E parent_path \in C24_Paths :
           ~create_folder(Cur, parent_path, NameA, next_uuid, now).ok

\* in state s inode ino is registered and its path resolves to a folder chain
C27_Resolvable(s, ino) == has_path(s, ino) /\ FolderIdOf(s, ino).ok

\* outcome w of readdir(ino, 0) made in state s lists ".", "..", then each
\* title of an undeleted child folder once as a directory, then each name
\* add_md_suffix(title) of an undeleted child note that no folder has taken
\* once as a regular file, every entry with the inode of its path
C27_Listing(s, w, ino) ==
    LET e == w.reply.entries
        id == FolderIdOf(s, ino).id
        path == get_path_from_inode(s, ino)
        folder_titles == {r.title : r \in ChildrenOf(s.folders, id)}
        note_names == {add_md_suffix(r.title) : r \in ChildrenOf(s.notes, id)}
                          \ folder_titles
        nf == Cardinality(folder_titles)
    IN /\ w.reply.code = "ok"
       /\ Len(e) = 2 + nf + Cardinality(note_names)
       /\ e[1].ino = ino /\ e[1].kind = "Directory" /\ e[1].name = <<".">>
       /\ e[2].ino = 1 /\ e[2].kind = "Directory" /\ e[2].name = <<".", ".">>
       /\ \A k \in 3..(2 + nf) :
              e[k].kind = "Directory" /\ e[k].name \in folder_titles
       /\ \A k \in (3 + nf)..Len(e) :
              e[k].kind = "RegularFile" /\ e[k].name \in note_names
       /\ \A j \in 3..Len(e), k \in 3..Len(e) : j # k => e[j].name # e[k].name
       /\ \A k \in 3..Len(e) :
              e[k].ino = w.reg.inode_map[JoinPath(path, e[k].name)]

\* C27: readdir(ino, 0) on a resolvable directory emits, in order,
\* (ino, directory, "."), (1, directory, ".."), then every undeleted child
\* folder title as a directory, then every undeleted child note as a regular
\* file named add_md_suffix(title); no name is emitted twice, and when a folder
\* and a note yield the same name only the folder entry is emitted.  The
\* first conjunct is about the readdir just dispatched, the second about every
\* readdir that can follow.
C27_ReaddirListing ==
    /\ (last.op = "readdir" /\ last.offset = 0 /\ C27_Resolvable(pre, last.ino))
       => C27_Listing(pre, Cur @@ [reply |-> last.reply], last.ino)
    /\ \A ino \in Inodes :
           C27_Resolvable(Cur, ino) => C27_Listing(Cur, readdir(Cur, ino, 0), ino)

\* a readdir of a directory that holds a folder and a note of the same name
\* has listed that name once, as a directory
C27_Witness ==
    /\ Did("readdir")
    /\ last.offset = 0
    /\ C27_Resolvable(pre, last.ino)
    /\ LET id == FolderIdOf(pre, last.ino).id
       IN \E f \in ChildrenOf(pre.folders, id), n \in ChildrenOf(pre.notes, id) :
              /\ f.title = add_md_suffix(n.title)
              /\ C15_Count(last.reply.entries, f.title) = 1
              /\ \E k \in 1..Len(last.reply.entries) :
                     /\ last.reply.entries[k].name = f.title
                     /\ last.reply.entries[k].kind = "Directory"

\* entries is the part of the listing full from position k on (positions
\* counted from 0), and the entry at position i is tagged with offset i + 1
C28_SuffixFrom(entries, full, k) ==
    /\ Len(entries) = Max(0, Len(full) - k)
    /\ \A j \in 1..Len(entries) :
           /\ entries[j] = full[k + j]
           /\ entries[j].offset = k + j

\* readdir(ino, ...) in state s: every offset k yields the listing from
\* position k on, and a reader that has received the first m entries and
\* resumes with the offset of the last one receives exactly the others
C28_Resumes(s, ino) ==
    LET first == readdir(s, ino, 0)
        full == first.reply.entries
    IN first.reply.code = "ok"
       => /\ \A k \in 0..(Len(full) + 1) :
                 LET w == readdir(s, ino, k)
                 IN w.reply.code = "ok"
                    /\ C28_SuffixFrom(w.reply.entries, full, k)
          /\ \A m \in 1..Len(full) :
                 SubSeq(full, 1, m)
                     \o readdir(first, ino, full[m].offset).reply.entries = full

\* C28: readdir(ino, k) emits exactly the entries at positions k, k+1, ... of
\* the deduplicated list and tags the entry at position i with next-offset
\* i+1, so a reader that resumes with the last offset it received enumerates
\* every entry exactly once when the store is unchanged between calls.  The
\* first conjunct is about the readdir just dispatched, the second about
\* every readdir that can follow.
C28_ReaddirOffsets ==
    /\ Did("readdir")
       => C28_SuffixFrom(last.reply.entries,
                         readdir(pre, last.ino, 0).reply.entries, last.offset)
    /\ \A ino \in Inodes : C28_Resumes(Cur, ino)

\* a readdir from offset 2 has emitted the third and fourth entries of the
\* listing, tagged 3 and 4
C28_Witness ==
    /\ Did("readdir")
    /\ last.offset = 2
    /\ Len(last.reply.entries) = 2
    /\ last.reply.entries[1].offset = 3
    /\ last.reply.entries[2].offset = 4
    /\ last.reply.entries[1] = readdir(pre, last.ino, 0).reply.entries[3]

\* rename(parent, name, newparent, newname) made in state s takes the folder
\* branch: no undeleted note has the old key, an undeleted folder has it
C29_IsFolderRename(s, parent, name) ==
    /\ has_path(s, parent)
    /\ to_str_ok(name)
    /\ FolderIdOf(s, parent).ok
    /\ Matching(s.notes, FolderIdOf(s, parent).id, strip_md_suffix(name)) = {}
    /\ Matching(s.folders, FolderIdOf(s, parent).id, name) # {}

\* the registered paths of registry reg that are P or lie below P/
C29_Subtree(reg, P) ==
    {p \in DOMAIN reg.inode_map : p = P \/ StartsWith(p, P \o Slash)}

\* in state w the path q is registered with inode, in both maps, and when q
\* is not Q itself and its parent path is registered, lookup of its last
\* component in its parent returns inode
C29_RegisteredAs(w, q, Q, inode) ==
    /\ q \in DOMAIN w.reg.inode_map
    /\ w.reg.inode_map[q] = inode
    /\ inode \in DOMAIN w.reg.reverse_inode_map
    /\ w.reg.reverse_inode_map[inode] = q
    /\ LET sp == SplitPath(q)
       IN (q # Q /\ sp.parent \in DOMAIN w.reg.inode_map)
          => LET l == lookup(w, w.reg.inode_map[sp.parent], sp.name).reply
             IN l.code = "ok" /\ l.ino = inode

\* a successful folder rename from P to Q took state s to state w: P and
\* every registered path below it are registered as Q and Q/tail with the
\* inodes they had
C29_Moved(s, w, P, Q) ==
    \A p \in C29_Subtree(s.reg, P) :
        C29_RegisteredAs(w, ReplacePrefix(p, P, Q), Q, s.reg.inode_map[p])

\* C29: after a successful folder rename from path P to path Q, P itself and
\* every registered path P/tail are registered as Q and Q/tail with the same
\* inodes as before, and lookup of each descendant through the new parent
\* chain returns that same inode.  The first conjunct is about the rename
\* just dispatched, the second about every rename that can follow.
C29_SubtreeFollowsRename ==
    /\ (Did("rename") /\ C29_IsFolderRename(pre, last.parent, last.name))
       => C29_Moved(pre, Cur, PathOf(pre, last.parent, last.name),
                    PathOf(pre, last.newparent, last.newname))
    /\ \A parent \in Inodes, newparent \in Inodes, pair \in RenamePairs :
           (/\ C29_IsFolderRename(Cur, parent, pair[1])
            /\ has_path(Cur, newparent)
            /\ ~IntoItself(Cur, parent, pair[1], newparent))
           => \A order \in RenameOrders(Cur, parent, pair[1]) :
                  LET w == rename(Cur, parent, pair[1], newparent, pair[2], now,
                                  order)
                  IN w.reply.code = "ok"
                     => C29_Moved(Cur, w, PathOf(Cur, parent, pair[1]),
                                  PathOf(Cur, newparent, pair[2]))

\* registry r1 has entry p of registry r0 as it was: same inode, same path
C30_EntryKept(r0, r1, p) ==
    /\ p \in DOMAIN r1.inode_map
    /\ r1.inode_map[p] = r0.inode_map[p]
    /\ r0.inode_map[p] \in DOMAIN r1.reverse_inode_map
    /\ r1.reverse_inode_map[r0.inode_map[p]] = p

\* C30: a successful folder rename from P to Q leaves unchanged every
\* registry entry whose path is neither P nor below P/; in particular a
\* sibling whose name merely has the last component of P as a string prefix
\* (/ab when /a is renamed) keeps its path and its inode.
C30_RenameLeavesOthers ==
    (Did("rename") /\ C29_IsFolderRename(pre, last.parent, last.name))
    => LET P == PathOf(pre, last.parent, last.name)
       IN \A p \in DOMAIN pre.reg.inode_map \ C29_Subtree(pre.reg, P) :
              C30_EntryKept(pre.reg, Registry, p)

----------------------------------------------------------------------------
(* Claims C31 .. C40.                                                       *)

\* folder row q is row r with at most title, parent_id and user_updated_time
\* changed
C31_SameButKey(r, q) ==
    q = [r EXCEPT !.title = q.title, !.parent_id = q.parent_id,
                  !.user_updated_time = q.user_updated_time]

\* in state w the child called name of the directory reached by
\* lookup(newparent, newname) is found by lookup, and when it is a note a read
\* of it returns body
C31_Reachable(w, newparent, newname, name, kind, body) ==
    LET top == lookup(w, newparent, newname)
    IN /\ top.reply.code = "ok"
       /\ LET child == lookup(top, top.reply.ino, name)
          IN /\ child.reply.code = "ok"
             /\ child.reply.kind = kind
             /\ kind = "RegularFile"
                => read(child, child.reply.ino, 0, MaxSize).reply
                       = [code |-> "ok", data |-> body]

\* a successful folder rename of (parent, name) to (newparent, newname) took
\* state s to state w: only the row lookup resolved changed, and only in its
\* key and user_updated_time; every child of it is reachable under the new path
C31_OnlyOwnRow(s, w, parent, name, newparent, newname) ==
    LET own == find_folder(s, FolderIdOf(s, parent).id, name)
    IN /\ w.notes = s.notes
       /\ \A r \in s.folders : r.id # own.id => r \in w.folders
       /\ \A q \in w.folders :
              q \in s.folders
              \/ \E r \in s.folders : r.id = q.id /\ C31_SameButKey(r, q)
       /\ \A c \in ChildrenOf(s.folders, own.id) :
              C31_Reachable(w, newparent, newname, c.title, "Directory", <<>>)
       /\ \A c \in ChildrenOf(s.notes, own.id) :
              C31_Reachable(w, newparent, newname, add_md_suffix(c.title),
                            "RegularFile",
                            find_note(s, own.id, c.title).body)

\* C31: a successful folder rename changes only title, parent_id and
\* user_updated_time of the own row of the renamed folder (the row lookup
\* resolves the old name to); no note row and no other folder row changes, and
\* every descendant stays reachable by lookup under the new path with its body
\* unchanged.
C31_RenameTouchesOwnRow ==
    (Did("rename") /\ C29_IsFolderRename(pre, last.parent, last.name))
    => C31_OnlyOwnRow(pre, Cur, last.parent, last.name, last.newparent,
                      last.newname)

\* the rows of a table with deleted_time # 0
C32_Dead(table) == {r \in table : r.deleted_time # 0}

\* state s without its deleted rows
C32_Live(s) ==
    [s EXCEPT !.folders = s.folders \ C32_Dead(s.folders),
              !.notes = s.notes \ C32_Dead(s.notes)]

\* the outcomes of every upcall that writes to the store, dispatched in state s
C32_Writers(s) ==
    LET inos == 1..s.reg.next_inode
    IN C16_Outcomes(s)
       \cup {write(s, ino, offset, data, now) :
                 ino \in inos, offset \in Offsets, data \in Datas}
       \cup {unlink(s, parent, name) : parent \in inos, name \in Names}

C33_NoBodyForDirectory ==
    \A ino \in Inodes :
        getattr(Cur, ino).reply.code = "ok"
        /\ getattr(Cur, ino).reply.kind = "Directory"
        => /\ open(Cur, ino).reply.code = "ENOENT"
           /\ \A offset \in Offsets, size \in ReadSizes :
                  read(Cur, ino, offset, size).reply.code = "ENOENT"

\* outcome w of a flush or release of ino in state s: success iff ino is
\* registered, ENOENT otherwise, store and registry as in s
C34_NoOp(s, w, ino) ==
    /\ w.reply = (IF ino \in DOMAIN s.reg.reverse_inode_map
                  THEN [code |-> "ok"] ELSE Error("ENOENT"))
    /\ w.folders = s.folders
    /\ w.notes = s.notes
    /\ w.reg = s.reg

\* C34: flush(ino) and release(ino) reply success iff ino is in the registry
\* and ENOENT otherwise, and in both cases leave the store and the registry
\* unchanged.  The first conjunct is about the flush or release just
\* dispatched, the second about every one that can be dispatched next.
C34_FlushReleaseAreNoOps ==
    /\ last.op \in {"flush", "release"}
       => C34_NoOp(pre, Cur @@ [reply |-> last.reply], last.ino)
    /\ \A ino \in Inodes :
           /\ C34_NoOp(Cur, flush(Cur, ino), ino)
           /\ C34_NoOp(Cur, release(Cur, ino), ino)

\* a release of an inode created one upcall earlier succeeded, and a release of
\* the inode not yet issued would reply ENOENT
C34_Witness ==
    /\ Did("release")
    /\ last.ino # 1
    /\ last.ino \in DOMAIN Registry.reverse_inode_map
    /\ Cur = pre
    /\ next_inode \notin DOMAIN Registry.reverse_inode_map
    /\ flush(Cur, next_inode).reply = Error("ENOENT")

\* inode_map and reverse_inode_map of registry reg are inverses of each other
C35_Inverse(reg) ==
    /\ \A p \in DOMAIN reg.inode_map :
           /\ reg.inode_map[p] \in DOMAIN reg.reverse_inode_map
           /\ reg.reverse_inode_map[reg.inode_map[p]] = p
    /\ \A i \in DOMAIN reg.reverse_inode_map :
           /\ reg.reverse_inode_map[i] \in DOMAIN reg.inode_map
           /\ reg.inode_map[reg.reverse_inode_map[i]] = i

\* C35: after any sequence of upcalls inode_map and reverse_inode_map are
\* mutual inverses, inode_map[p] = i iff reverse_inode_map[i] = p, so no two
\* inodes map to the same path and no path maps to two inodes, also after a
\* rename whose destination path was already registered.
C35_MapsAreInverse == C35_Inverse(Registry)

\* inode ino of state s is registered and its path is served as a note
C36_ServesNote(s, ino) ==
    /\ has_path(s, ino)
    /\ getattr(s, ino).reply.code = "ok"
    /\ getattr(s, ino).reply.kind = "RegularFile"

\* in state s no note row is served under two registered paths
C36_OnePathPerNote(s) ==
    \A i, j \in DOMAIN s.reg.reverse_inode_map :
        (/\ C36_ServesNote(s, i)
         /\ C36_ServesNote(s, j)
         /\ NoteOfInode(s, i).id = NoteOfInode(s, j).id)
        => s.reg.reverse_inode_map[i] = s.reg.reverse_inode_map[j]

\* the outcomes of every lookup, readdir and create dispatched in state s
C36_Outcomes(s) ==
    LET inos == 1..s.reg.next_inode
    IN {lookup(s, parent, name) : parent \in inos, name \in Names}
       \cup {readdir(s, ino, 0) : ino \in inos}
       \cup {create(s, parent, name, next_uuid, now) :
                 parent \in inos, name \in Names}

\* C36: after any sequence of lookup, readdir and create upcalls no undeleted
\* note is reachable through two different registered paths: a note is served
\* under exactly one userland name in its parent, so it has at most one inode.
\* The sequences covered are at most one such upcall after the mount followed
\* by any one more.
C36_NoteHasOnePath ==
    (steps <= 1 /\ last.op \in {"mount", "lookup", "readdir", "create"})
    => \A w \in C36_Outcomes(Cur) : C36_OnePathPerNote(w)

\* every entry of the listing that readdir(d, 0) gave in the state s it left is
\* accepted by lookup(d, name), with the inode and the kind listed
C37_Accepted(s, d, entries) ==
    \A k \in 3..Len(entries) :
        LET e == entries[k]
            r == lookup(s, d, e.name).reply
        IN /\ r.code = "ok"
           /\ r.ino = e.ino
           /\ r.kind = e.kind

\* C37: every name that readdir(d) lists is accepted by lookup(d, name) with
\* the store unchanged in between, and lookup returns the same inode and the
\* same kind as the listing; this includes notes whose stored title already
\* ends in ".md".  The first conjunct is about the readdir just dispatched, the
\* second about every readdir that can be dispatched next.
C37_ListedNamesResolve ==
    /\ (Did("readdir") /\ last.offset = 0)
       => C37_Accepted(Cur, last.ino, last.reply.entries)
    /\ \A d \in Inodes :
           LET w == readdir(Cur, d, 0)
           IN w.reply.code = "ok" => C37_Accepted(w, d, w.reply.entries)

\* no two undeleted rows of the table have equal (parent_id, title)
C38_KeysUnique(table) ==
    \A r, q \in table :
        (/\ r.deleted_time = 0
         /\ q.deleted_time = 0
         /\ r.parent_id = q.parent_id
         /\ r.title = q.title)
        => r = q

\* C38: create(parent, name) and mkdir(parent, name) never leave two undeleted
\* rows of the same table with equal (parent_id, title): dispatched in a store
\* whose keys are unique they leave the keys unique, whatever they reply, and a
\* note that existed under the name is still what read returns afterwards.
C38_CreateKeepsKeysUnique ==
    (/\ last.op \in {"create", "mkdir"}
     /\ C38_KeysUnique(pre.folders)
     /\ C38_KeysUnique(pre.notes))
    => /\ C38_KeysUnique(folders)
       /\ C38_KeysUnique(notes)
       /\ \A ino \in DOMAIN pre.reg.reverse_inode_map :
              read(pre, ino, 0, MaxSize).reply.code = "ok"
              => read(Cur, ino, 0, MaxSize).reply
                     = read(pre, ino, 0, MaxSize).reply

\* C39: rename(parent, name, ...) renames the entity lookup(parent, name)
\* resolves to: when a folder titled name and a note titled
\* strip_md_suffix(name) both exist under the parent, a successful rename
\* changes the folder, which shadows the note in lookup, and leaves every note
\* row unchanged.
C39_RenameTakesTheFolder ==
    (Did("rename") /\ C14_Shadowed(pre, last.parent, last.name))
    => /\ notes = pre.notes
       /\ find_folder(pre, FolderIdOf(pre, last.parent).id, last.name)
              \notin folders

\* the path of registered inode ino resolves in state s, folder probe first and
\* note probe second, to an undeleted row
C40_Resolves(s, ino) ==
    LET sp == SplitPath(s.reg.reverse_inode_map[ino])
        pid == get_parent_folder_id(s, sp.parent)
    IN /\ pid.ok
       /\ to_str_ok(sp.name)
       /\ \/ Matching(s.folders, pid.id, sp.name) # {}
          \/ Matching(s.notes, pid.id, strip_md_suffix(sp.name)) # {}

\* every registered path of state s other than "/" resolves to an undeleted row
C40_AllResolve(s) ==
    \A ino \in DOMAIN s.reg.reverse_inode_map :
        s.reg.reverse_inode_map[ino] # RootPath => C40_Resolves(s, ino)

\* C40: with the dispatcher as the only writer of the store, after any
\* sequence of upcalls every registered path other than "/" resolves (folder
\* probe, then note probe) to an undeleted store row: unlink, rmdir and rename
\* leave no registry entry naming a removed entity or the old location of a
\* moved one.  Stated of one step: an unlink, rmdir or rename dispatched when
\* every registered path resolves leaves every registered path resolving.
C40_RegisteredPathsResolve ==
    (/\ last.op \in {"unlink", "rmdir", "rename"}
     /\ C40_AllResolve(pre))
    => C40_AllResolve(Cur)

====
